---- MODULE Spec2Model ----
(***************************************************************************)
(* Provisioning step pipeline of the Proxmox infra provider                *)
(* (internal/pkg/provider, ProvisionSteps and its helpers).                *)
(*                                                                         *)
(* One machine request is provisioned by five steps that read and write    *)
(* one persisted state record (resources.Machine).  A step invocation is   *)
(* one atomic action: it reads the record and the live answers of the      *)
(* Proxmox API, mutates the record in place and returns nil, a retry       *)
(* interval or an error.  The Proxmox side (tasks, image stores, VMs) is   *)
(* the environment.                                                        *)
(***************************************************************************)
EXTENDS Integers, Sequences, FiniteSets, TLC

VARIABLES
    State,      \* pctx.State.TypedSpec().Value: the persisted machine record
    data,       \* the provider data of the machine request (Data)
    req,        \* identity of the machine request (request id, request set id)
    step,       \* index of the step the orchestrator runs next (1..5), 6: all done,
                \* 0: none is run
    tasks,      \* Proxmox tasks by UPID: kind, target and status
    isoStore,   \* files of the ISO storage of each node: set of <<node, name>>
    vms,        \* virtual machines of the cluster: set of [node, vmid, tags, status]
    last,       \* the last step invocation: step, result, remote calls in order
    dep,        \* the Deprovision call: where it stands, its context, its result
    pick,       \* one call of pickNode: the list handed in and the node returned
    call,       \* one call of a function of the package: name, arguments, result
    peer,       \* machine requests of one request set that run side by side, by request id
    cluster     \* a cluster that answers every call the same way: nodes, pools, Talos version

vars == <<State, data, req, step, tasks, isoStore, vms, last, dep, pick, call, peer, cluster>>

----------------------------------------------------------------------------
(* Bounds of the model *)

\* number of Proxmox tasks one run may start (download, create and start requests)
MaxTasks == 3

\* number of times the orchestrator calls Deprovision for one machine
MaxDeprovisions == 2

\* length of the node lists pickNode is applied to, every value at every place
MaxNodes == 3

----------------------------------------------------------------------------
(* Values *)

machineRequestTagPrefix == "machine-request."

ImageFactoryBaseURL == "https://factory.talos.dev"

\* versions pctx.GetTalosVersion() may report; the orchestrator's version can
\* change between two invocations
TalosVersions == {"v1.11.0", "v1.12.0"}

\* results of pctx.GenerateSchematicID
Schematics == {"sch-a"}

\* results of uuid.NewString()
UUIDs == {"uuid-1", "uuid-2"}

\* uuid.NewString() of line 240: a value no earlier call returned, so never the
\* one the record holds; which of the values it is makes no difference to any
\* step, no step compares uuids
NewString(st) == CHOOSE u \in UUIDs : u # st.Uuid

\* vm ids cluster.NextID may hand out
FirstVmid == 100

NodeNames == {"pve1", "pve2"}

\* the record as the orchestrator creates it: every field holds its zero value
EmptyState ==
    [Node |-> "", Schematic |-> "", TalosVersion |-> "", VolumeId |-> "",
     VolumeUploadTask |-> "", Uuid |-> "", VmCreateTask |-> "", Vmid |-> 0,
     VmStartTask |-> ""]

----------------------------------------------------------------------------
(* Step results: nil, provision.NewRetryInterval(d), or an error *)

Continue == [kind |-> "ok", after |-> 0, msg |-> ""]

NewRetryInterval(seconds) == [kind |-> "retry", after |-> seconds, msg |-> "requeue"]

Errorf(text) == [kind |-> "error", after |-> 0, msg |-> text]

\* err.Error() of a step result that is not nil
ErrorText(res) == res.msg

\* one remote call of an invocation and its answer: "ok", "absent" (the thing
\* asked for does not exist) or "failed" (the call itself failed)
Call(op, arg) == [op |-> op, arg |-> arg, answer |-> "ok"]

----------------------------------------------------------------------------
(* Proxmox tasks *)

\* what a status refresh (Task.Ping) can show of a task
\*   running : Status "running", IsRunning
\*   OK      : Status "stopped", IsSuccessful
\*   stopped : Status "stopped", IsFailed
\*   other   : any other status text, neither running nor successful
TaskRunning == [Status |-> "running", IsRunning |-> TRUE, IsSuccessful |-> FALSE, IsFailed |-> FALSE]

TaskOK == [Status |-> "stopped", IsRunning |-> FALSE, IsSuccessful |-> TRUE, IsFailed |-> FALSE]

TaskStopped == [Status |-> "stopped", IsRunning |-> FALSE, IsSuccessful |-> FALSE, IsFailed |-> TRUE]

TaskOther == [Status |-> "unexpected status", IsRunning |-> FALSE, IsSuccessful |-> FALSE, IsFailed |-> TRUE]

TaskStatuses == {TaskRunning, TaskOK, TaskStopped, TaskOther}

\* the UPID the cluster gives to its n-th task
UPID(n) == "UPID:" \o ToString(n)

NewUPID(ts) == UPID(Cardinality(DOMAIN ts) + 1)

TasksOfKind(kind) == {h \in DOMAIN tasks : tasks[h].kind = kind}

\* Task.Ping of the task behind a recorded handle; transport tells whether the
\* refresh itself failed
Ping(h, transportFails) == [err |-> transportFails, t |-> tasks[h].status]

\* mutant: a failed task is reported with a fixed text
checkTaskStatusFixedText(ping) ==
    IF ping.err THEN Errorf("ping failed")
    ELSE IF ping.t.IsRunning THEN NewRetryInterval(10)
    ELSE IF ping.t.IsSuccessful THEN Continue
    ELSE Errorf("task failed")

\* checkTaskStatus, lines 652-667: one refresh, then the three-way reduction
checkTaskStatus(ping) ==
    IF ping.err THEN Errorf("ping failed")
    ELSE IF ping.t.IsRunning THEN NewRetryInterval(10)
    ELSE IF ping.t.IsSuccessful THEN Continue
    ELSE Errorf(ping.t.Status)

----------------------------------------------------------------------------
(* Node selection *)

\* cmp.Compare on integers
cmpCompare(x, y) == IF x < y THEN -1 ELSE IF x > y THEN 1 ELSE 0

\* cmp.Compare on the free-memory ratios, kept as fractions num/den with den > 0
cmpCompareRatio(a, b) == cmpCompare(a.num * b.den, b.num * a.den)

\* mutant: free memory is compared first, the sibling count breaks ties
nodeStatusCmpMemoryFirst(a, b) ==
    IF cmpCompareRatio(a.MemoryFree, b.MemoryFree) # 0
    THEN -cmpCompareRatio(a.MemoryFree, b.MemoryFree)
    ELSE cmpCompare(a.SameMachineRequestSetVMs, b.SameMachineRequestSetVMs)

\* mutant: the ratio comparison is not negated, least free memory first
nodeStatusCmpLeastFree(a, b) ==
    IF cmpCompare(a.SameMachineRequestSetVMs, b.SameMachineRequestSetVMs) # 0
    THEN cmpCompare(a.SameMachineRequestSetVMs, b.SameMachineRequestSetVMs)
    ELSE cmpCompareRatio(a.MemoryFree, b.MemoryFree)

\* the comparison function handed to slices.SortFunc in pickNode
nodeStatusCmp(a, b) ==
    IF cmpCompare(a.SameMachineRequestSetVMs, b.SameMachineRequestSetVMs) # 0
    THEN cmpCompare(a.SameMachineRequestSetVMs, b.SameMachineRequestSetVMs)
    ELSE -cmpCompareRatio(a.MemoryFree, b.MemoryFree)

\* slices.SortFunc on a short list is an insertion sort: each element moves
\* left while it compares less than its left neighbour
RECURSIVE insertNodeStatus(_, _)
insertNodeStatus(sorted, x) ==
    IF sorted = <<>> THEN <<x>>
    ELSE IF nodeStatusCmp(x, sorted[Len(sorted)]) < 0
         THEN insertNodeStatus(SubSeq(sorted, 1, Len(sorted) - 1), x) \o <<sorted[Len(sorted)]>>
         ELSE sorted \o <<x>>

RECURSIVE sortNodeStatus(_)
sortNodeStatus(list) ==
    IF list = <<>> THEN <<>>
    ELSE insertNodeStatus(sortNodeStatus(SubSeq(list, 1, Len(list) - 1)), list[Len(list)])

\* the zero value of nodeStatus
NoNodeStatus == [Name |-> "", MemoryFree |-> [num |-> 0, den |-> 1],
                 SameMachineRequestSetVMs |-> 0]

\* mutant: only nodes without a sibling machine are ranked, and the zero
\* nodeStatus is returned when there is none
pickNodeOfFreeNodes(nodeInfoList) ==
    LET free == SelectSeq(nodeInfoList, LAMBDA n : n.SameMachineRequestSetVMs = 0)
    IN  IF free = <<>> THEN NoNodeStatus ELSE sortNodeStatus(free)[1]

\* pickNode, lines 699-710: the first element after the sort
pickNode(nodeInfoList) == sortNodeStatus(nodeInfoList)[1]

\* slices.SortFunc sorts slices of up to this many elements by insertion
maxInsertion == 12

\* the nodes pickNode can return.  Up to maxInsertion elements the sort is
\* the insertion sort above.  A longer slice is sorted by pattern-defeating
\* quicksort, which moves its pivot to the front and does not keep equal
\* elements in their order (slices.SortFunc: "not guaranteed to be stable"):
\* the first element is then any element no other one compares less than
pickNodeOutcomes(nodeInfoList) ==
    IF Len(nodeInfoList) <= maxInsertion
    THEN {pickNode(nodeInfoList)}
    ELSE {nodeInfoList[i] : i \in {i \in DOMAIN nodeInfoList :
                \A j \in DOMAIN nodeInfoList :
                    nodeStatusCmp(nodeInfoList[i], nodeInfoList[j]) <= 0}}

\* mutant: a tag that begins with the text counts as the tag
HasTagByPrefix(vm, tag) ==
    \E t \in vm.tags : Len(t) >= Len(tag) /\ SubSeq(t, 1, Len(tag)) = tag

\* vm.HasTag
HasTag(vm, tag) == tag \in vm.tags

\* mutant: a node another request has picked and not yet used counts one more
nodeStatusOfReserving(node, rq) ==
    [Name |-> node.Node,
     MemoryFree |-> [num |-> node.MaxMem - node.Mem, den |-> node.MaxMem],
     SameMachineRequestSetVMs |->
        IF rq.MachineRequestSetID # ""
        THEN Cardinality({vm \in vms : vm.node = node.Node
                            /\ HasTag(vm, machineRequestTagPrefix \o rq.MachineRequestSetID)})
             + Cardinality({r \in DOMAIN peer :
                                peer[r].step = 2 /\ peer[r].State.Node = node.Node})
        ELSE 0]

\* the nodeStatus built for one cluster node, lines 107-128
nodeStatusOf(node, rq) ==
    [Name |-> node.Node,
     MemoryFree |-> [num |-> node.MaxMem - node.Mem, den |-> node.MaxMem],
     SameMachineRequestSetVMs |->
        IF rq.MachineRequestSetID # ""
        THEN Cardinality({vm \in vms : vm.node = node.Node
                            /\ HasTag(vm, machineRequestTagPrefix \o rq.MachineRequestSetID)})
        ELSE 0]

\* nodeInfoList of lines 104-131
nodeInfoList(nodes, rq) == [i \in 1..Len(nodes) |-> nodeStatusOf(nodes[i], rq)]

----------------------------------------------------------------------------
(* Image name *)

\* url.JoinPath: the non-empty elements, each after a slash
RECURSIVE JoinPath(_, _)
JoinPath(base, elems) ==
    IF elems = <<>> THEN base
    ELSE JoinPath(IF elems[1] = "" THEN base ELSE base \o "/" \o elems[1], Tail(elems))

ImageURL(schematic, talosVersion) ==
    JoinPath(ImageFactoryBaseURL, <<"image", schematic, talosVersion, "nocloud-amd64.iso">>)

\* hex.EncodeToString of the SHA-256 digest: a digest is modelled as a tag on
\* the hashed text (collision free)
Sha256Hex(text) == "sha256[" \o text \o "]"

IsoName(schematic, talosVersion) == Sha256Hex(ImageURL(schematic, talosVersion)) \o ".iso"

----------------------------------------------------------------------------
(* Storage selection *)

\* storage selector expressions of the provider data
SelLvmThin == "storageType == 'lvmthin'"

SelLocal == "name == 'local'"

SelDivByZero == "availableSpace / 0u > 1u"

SelMalformed == "name =="

\* a selector with a string in double quotes
SelQuoted == "name == \"local-lvm\""

\* a selector that divides by the free space of the pool
SelPerSpace == "100u / availableSpace < 10u"

\* siderocel.ParseBooleanExpression: whether the text parses as a boolean expression
ParseBooleanExpression(selector) ==
    selector \in {SelLvmThin, SelLocal, SelDivByZero, SelQuoted, SelPerSpace}

\* expr.EvalBool on the attributes of one pool: "true", "false" or "error"
\* (a division by zero is an evaluation error)
EvalBool(selector, nodeName, storage) ==
    IF selector = SelLvmThin THEN (IF storage.Type = "lvmthin" THEN "true" ELSE "false")
    ELSE IF selector = SelLocal THEN (IF storage.Name = "local" THEN "true" ELSE "false")
    ELSE IF selector = SelQuoted
    THEN (IF storage.Name = "local-lvm" THEN "true" ELSE "false")
    ELSE IF selector = SelPerSpace /\ storage.Avail # 0
    THEN (IF 100 \div storage.Avail < 10 THEN "true" ELSE "false")
    ELSE "error"

\* the double quote
doubleQuote == "\""

\* strconv.Quote, character by character from the i-th one: a backslash goes
\* before every double quote and every backslash
RECURSIVE quoteFrom(_, _)
quoteFrom(text, i) ==
    IF i > Len(text) THEN ""
    ELSE LET c == SubSeq(text, i, i)
         IN  (IF c = doubleQuote \/ c = "\\" THEN "\\" \o c ELSE c)
                \o quoteFrom(text, i + 1)

\* the verb %q of fmt.Errorf, line 640: the text as a Go string literal
Quote(selector) == doubleQuote \o quoteFrom(selector, 1) \o doubleQuote

\* mutant: an evaluation error is taken for no match
evalNeverFails(matched) == FALSE

\* the test of lines 629-631
evalFailed(matched) == matched = "error"

\* the loop of pickStorage, lines 609-640, from the i-th pool on
RECURSIVE pickStorageFrom(_, _, _, _)
pickStorageFrom(storages, i, nodeName, selector) ==
    IF i > Len(storages)
    THEN [name |-> "",
          err |-> Errorf("failed to pick the disk: no matches for the condition "
                          \o Quote(selector))]
    ELSE IF ~ParseBooleanExpression(selector)
    THEN [name |-> "", err |-> Errorf("failed to parse the expression " \o selector)]
    ELSE IF evalFailed(EvalBool(selector, nodeName, storages[i]))
    THEN [name |-> "", err |-> Errorf("failed to evaluate the expression " \o selector)]
    ELSE IF EvalBool(selector, nodeName, storages[i]) = "true"
    THEN [name |-> storages[i].Name, err |-> Continue]
    ELSE pickStorageFrom(storages, i + 1, nodeName, selector)

\* mutant: the pools are gone through from the last one
pickStorageFromTheEnd(listing, nodeName, selector) ==
    IF listing.err THEN [name |-> "", err |-> Errorf("storages failed")]
    ELSE pickStorageFrom([i \in DOMAIN listing.storages |->
                            listing.storages[Len(listing.storages) + 1 - i]],
                         1, nodeName, selector)

\* pickStorage, lines 603-641; listing is the answer of node.Storages
pickStorage(listing, nodeName, selector) ==
    IF listing.err THEN [name |-> "", err |-> Errorf("storages failed")]
    ELSE pickStorageFrom(listing.storages, 1, nodeName, selector)

----------------------------------------------------------------------------
(* Step invocations.  A step maps the record and the answers of the remote  *)
(* API to: the record as the step leaves it, the result it returns, the     *)
(* remote calls it made in order, each with its answer, and the task a      *)
(* request of it started.  fail names the remote call whose transport fails *)
(* in this invocation.                                                      *)

NoTask == [kind |-> "none", node |-> "", name |-> "", vmid |-> 0, tags |-> {}]

StartedTask(kind, node, name, vmid, tags) ==
    [kind |-> kind, node |-> node, name |-> name, vmid |-> vmid, tags |-> tags]

Out(st, res, calls, task) == [st |-> st, res |-> res, calls |-> calls, task |-> task]

\* the calls made when the last of them came back with the given answer
Answered(calls, answer) == [calls EXCEPT ![Len(calls)].answer = answer]

\* p.proxmoxClient.Node(ctx, name) fails for a name the cluster does not have
NodeLookupFails(name, fail) == fail = "node" \/ name \notin NodeNames

\* the node and vm listing calls of the ranking loop for the first n nodes
nodeListingCalls(nodes, n) ==
    [i \in 1..(2 * n) |->
        IF i % 2 = 1 THEN Call("node", nodes[(i + 1) \div 2].Node)
        ELSE Call("vms", nodes[i \div 2].Node)]

\* mutant: an empty listing is taken for nothing to do
noNodesIsNoError(st, listed) == Out(st, Continue, listed, NoTask)

\* the return of lines 81-83 on an empty listing
noNodes(st, listed) == Out(st, Errorf("no nodes available"), listed, NoTask)

\* mutant: the status of the configured node is not looked at
nodeNeverOffline(node) == FALSE

\* the test of line 89
nodeNotOnline(node) == node.Status # "online"

\* the pickNode step, lines 69-140
pickNodeStep(st, d, rq, nodes, fail) ==
    LET listed == <<Call("nodes", "")>>
        named == {i \in 1..Len(nodes) : nodes[i].Node = d.Node}
        first == CHOOSE i \in named : \A j \in named : i <= j
        ranked == nodeInfoList(nodes, rq)
    IN  IF fail = "unmarshal" THEN Out(st, Errorf("unmarshal failed"), <<>>, NoTask)
        ELSE IF fail = "nodes"
        THEN Out(st, Errorf("nodes failed"), Answered(listed, "failed"), NoTask)
        ELSE IF Len(nodes) = 0 THEN noNodes(st, listed)
        ELSE IF d.Node # "" THEN
            IF named = {}
            THEN Out(st, Errorf("specified node \"" \o d.Node \o "\" not found in cluster"),
                     listed, NoTask)
            ELSE IF nodeNotOnline(nodes[first])
            THEN Out(st, Errorf("specified node \"" \o d.Node \o "\" is not online (status: "
                                  \o nodes[first].Status \o ")"), listed, NoTask)
            ELSE Out([st EXCEPT !.Node = d.Node], Continue, listed, NoTask)
        ELSE IF rq.MachineRequestSetID # "" /\ fail = "node"
        THEN Out(st, Errorf("failed to get node \"" \o nodes[1].Node \o "\", node failed"),
                 Answered(listed \o <<Call("node", nodes[1].Node)>>, "failed"), NoTask)
        ELSE IF rq.MachineRequestSetID # "" /\ fail = "vms"
        THEN Out(st, Errorf("failed to get vms for now \"" \o nodes[1].Node \o "\", vms failed"),
                 Answered(listed \o nodeListingCalls(nodes, 1), "failed"), NoTask)
        ELSE Out([st EXCEPT !.Node = pickNode(ranked).Name], Continue,
                 listed \o (IF rq.MachineRequestSetID # ""
                            THEN nodeListingCalls(nodes, Len(nodes)) ELSE <<>>),
                 NoTask)

\* the createSchematic step, lines 141-154
createSchematicStep(st, schematic, fail) ==
    IF fail = "schematic"
    THEN Out(st, Errorf("schematic failed"), <<>>, NoTask)
    ELSE Out([st EXCEPT !.Schematic = schematic], Continue, <<>>, NoTask)

\* mutant: the lookup always returns an error
isoNeverFound(node, name, fail) == FALSE

\* mutant: the file is looked up in the ISO storage of every node
isoFoundOnAnyNode(node, name, fail) ==
    fail # "iso" /\ \E n \in NodeNames : <<n, name>> \in isoStore

\* storage.ISO(ctx, name) returns no error: the file is in the node's ISO
\* storage and the lookup itself did not fail
isoFound(node, name, fail) == fail # "iso" /\ <<node, name>> \in isoStore

\* mutant: the recorded download handle is not looked at
uploadISOHasTaskIgnored(st) == FALSE

\* the test of line 156: a download handle is recorded
uploadISOHasTask(st) == st.VolumeUploadTask # ""

\* mutant: every failed poll lets the step download again
uploadISORetriesAnyError(res) == res.kind = "error"

\* the test of line 158: the poll error that lets the step download again
uploadISORetries(res) == ErrorText(res) = "stopped"

\* lines 169-227 of uploadISO: record version and name, look the image up,
\* download it when the lookup returns an error
uploadISOFresh(st, talosVersion, fail, polled) ==
    LET isoName == IsoName(st.Schematic, talosVersion)
        st1 == [st EXCEPT !.TalosVersion = talosVersion]
        st2 == [st1 EXCEPT !.VolumeId = isoName]
        c1 == polled \o <<Call("node", st.Node)>>
        c2 == c1 \o <<Call("storageISO", st.Node)>>
        c3 == c2 \o <<Call("iso", isoName)>>
        c4 == Answered(c3, IF fail = "iso" THEN "failed" ELSE "absent")
                \o <<Call("download", isoName)>>
    IN  IF fail = "unmarshal" THEN Out(st1, Errorf("unmarshal failed"), polled, NoTask)
        ELSE IF NodeLookupFails(st.Node, fail)
        THEN Out(st2, Errorf("node failed"), Answered(c1, "failed"), NoTask)
        ELSE IF fail = "storageISO"
        THEN Out(st2, Errorf("failed to get storage: storage failed"),
                 Answered(c2, "failed"), NoTask)
        ELSE IF isoFound(st.Node, isoName, fail) THEN Out(st2, Continue, c3, NoTask)
        ELSE IF fail = "download"
        THEN Out(st2, Errorf("download failed"), Answered(c4, "failed"), NoTask)
        ELSE Out([st2 EXCEPT !.VolumeUploadTask = NewUPID(tasks)], NewRetryInterval(1), c4,
                 StartedTask("download", st.Node, isoName, 0, {}))

\* the poll of a recorded handle by a step: the refresh and its answer
pollCalls(h, fail) ==
    IF fail = "ping" THEN <<[Call("ping", h) EXCEPT !.answer = "failed"]>>
    ELSE <<Call("ping", h)>>

\* the uploadISO step, lines 155-228
uploadISOStep(st, talosVersion, fail) ==
    LET polled == pollCalls(st.VolumeUploadTask, fail)
        err == checkTaskStatus(Ping(st.VolumeUploadTask, fail = "ping"))
    IN  IF ~uploadISOHasTask(st) THEN uploadISOFresh(st, talosVersion, fail, <<>>)
        ELSE IF err # Continue /\ ~uploadISORetries(err) THEN Out(st, err, polled, NoTask)
        ELSE IF err = Continue THEN Out(st, Continue, polled, NoTask)
        ELSE uploadISOFresh(st, talosVersion, fail, polled)

\* cluster.NextID: the lowest id no virtual machine of the cluster uses
NextID == CHOOSE id \in FirstVmid..(FirstVmid + Cardinality(vms)) :
            /\ \A vm \in vms : vm.vmid # id
            /\ \A low \in FirstVmid..(id - 1) : \E vm \in vms : vm.vmid = low

\* the loop over data.AdditionalDisks, lines 385-418, from the i-th disk on:
\* the first storage error, or the scsi options of the disks; n counts the
\* storage listings made
RECURSIVE additionalDisks(_, _, _, _)
additionalDisks(listing, nodeName, disks, i) ==
    IF i > Len(disks) THEN [err |-> Continue, opts |-> <<>>, n |-> 0]
    ELSE LET picked == pickStorage(listing, nodeName, disks[i].StorageSelector)
             rest == additionalDisks(listing, nodeName, disks, i + 1)
         IN  IF picked.err # Continue
             THEN [err |-> Errorf("failed to pick storage for additional disk "
                                    \o ToString(i) \o ": " \o ErrorText(picked.err)),
                   opts |-> <<>>, n |-> 1]
             ELSE IF rest.err # Continue THEN [rest EXCEPT !.n = rest.n + 1]
             ELSE [err |-> Continue,
                   opts |-> <<[Name |-> "scsi" \o ToString(i),
                               Value |-> picked.name \o ":" \o ToString(disks[i].DiskSize)]>>
                            \o rest.opts,
                   n |-> rest.n + 1]

\* the tags option of lines 375-382
tagsOf(rq) ==
    IF rq.MachineRequestSetID # ""
    THEN {machineRequestTagPrefix \o rq.MachineRequestSetID} ELSE {}

\* mutant: the recorded create handle is not looked at
syncVMHasTaskIgnored(st) == FALSE

\* the test of line 230: a create handle is recorded
syncVMHasTask(st) == st.VmCreateTask # ""

\* mutant: a uuid is generated in every invocation
syncVMAlwaysNewUuid(st) == TRUE

\* the test of line 239: no uuid is recorded yet
syncVMNeedsUuid(st) == st.Uuid = ""

\* mutant: a failed choice of a storage pool is not told apart
pickFailedNever(picked) == FALSE

\* the tests of lines 290 and 386: the choice of a storage pool failed
pickFailed(picked) == picked.err # Continue

\* lines 239-518 of syncVM: everything after the poll of a recorded handle
syncVMCreate(st, d, rq, uuid, listing, listing2, fail) ==
    LET st1 == IF syncVMNeedsUuid(st) THEN [st EXCEPT !.Uuid = uuid] ELSE st
        vmid == NextID
        primary == pickStorage(listing, st.Node, d.StorageSelector)
        extra == additionalDisks(listing2, st.Node, d.AdditionalDisks, 1)
        c1 == <<Call("node", st.Node)>>
        c2 == c1 \o <<Call("cluster", "")>>
        c3 == c2 \o <<Call("nextid", "")>>
        c4 == c3 \o <<Call("storageISO", st.Node)>>
        c5 == c4 \o <<Call("iso", st.VolumeId)>>
        c6 == c5 \o <<Call("storages", st.Node)>>
        c7 == c6 \o [i \in 1..extra.n |-> Call("storages", st.Node)]
        c8 == c7 \o <<Call("create", ToString(vmid))>>
    IN  IF fail = "unmarshal" THEN Out(st1, Errorf("unmarshal failed"), <<>>, NoTask)
        ELSE IF NodeLookupFails(st.Node, fail)
        THEN Out(st1, Errorf("node failed"), Answered(c1, "failed"), NoTask)
        ELSE IF fail = "cluster"
        THEN Out(st1, Errorf("cluster failed"), Answered(c2, "failed"), NoTask)
        ELSE IF fail = "nextid"
        THEN Out(st1, Errorf("nextid failed"), Answered(c3, "failed"), NoTask)
        ELSE IF fail = "storageISO"
        THEN Out(st1, Errorf("storage failed"), Answered(c4, "failed"), NoTask)
        ELSE IF ~isoFound(st.Node, st.VolumeId, fail)
        THEN Out(st1, Errorf("iso lookup failed"),
                 Answered(c5, IF fail = "iso" THEN "failed" ELSE "absent"), NoTask)
        ELSE IF pickFailed(primary)
        THEN Out(st1, primary.err, IF listing.err THEN Answered(c6, "failed") ELSE c6, NoTask)
        ELSE IF pickFailed(extra)
        THEN Out(st1, extra.err, IF listing2.err THEN Answered(c7, "failed") ELSE c7, NoTask)
        ELSE IF fail = "create"
        THEN Out(st1, Errorf("create failed"), Answered(c8, "failed"), NoTask)
        ELSE Out([st1 EXCEPT !.VmCreateTask = NewUPID(tasks), !.Vmid = vmid],
                 NewRetryInterval(10), c8,
                 StartedTask("create", st.Node, "", vmid, tagsOf(rq)))

\* the syncVM step, lines 229-519
syncVMStep(st, d, rq, uuid, listing, listing2, fail) ==
    IF syncVMHasTask(st)
    THEN Out(st, checkTaskStatus(Ping(st.VmCreateTask, fail = "ping")),
             pollCalls(st.VmCreateTask, fail), NoTask)
    ELSE syncVMCreate(st, d, rq, uuid, listing, listing2, fail)

\* node.VirtualMachine(ctx, vmid) of getVM, lines 643-650
vmExists(node, vmid) == \E vm \in vms : vm.node = node /\ vm.vmid = vmid

\* mutant: the recorded start handle is not looked at
startVMHasTaskIgnored(st) == FALSE

\* the test of line 521: a start handle is recorded
startVMHasTask(st) == st.VmStartTask # ""

\* mutant: startVM returns nil once the start handle is recorded
startVMRequeueNone == Continue

\* the return of line 556, after the start handle was recorded
startVMRequeue == NewRetryInterval(1)

\* the startVM step, lines 520-559
startVMStep(st, fail) ==
    LET c1 == <<Call("node", st.Node)>>
        c2 == c1 \o <<Call("getvm", ToString(st.Vmid))>>
        c3 == c2 \o <<Call("cloudinit", ToString(st.Vmid))>>
        c4 == c3 \o <<Call("start", ToString(st.Vmid))>>
    IN  IF startVMHasTask(st)
        THEN Out(st, checkTaskStatus(Ping(st.VmStartTask, fail = "ping")),
                 pollCalls(st.VmStartTask, fail), NoTask)
        ELSE IF NodeLookupFails(st.Node, fail)
        THEN Out(st, Errorf("node failed"), Answered(c1, "failed"), NoTask)
        ELSE IF fail = "getvm" \/ ~vmExists(st.Node, st.Vmid)
        THEN Out(st, Errorf("vm lookup failed"),
                 Answered(c2, IF fail = "getvm" THEN "failed" ELSE "absent"), NoTask)
        ELSE IF fail = "cloudinit"
        THEN Out(st, Errorf("failed to inject nocloud config: cloudinit failed"),
                 Answered(c3, "failed"), NoTask)
        ELSE IF fail = "start" THEN Out(st, Errorf("start failed"), Answered(c4, "failed"), NoTask)
        ELSE Out([st EXCEPT !.VmStartTask = NewUPID(tasks)], startVMRequeue, c4,
                 StartedTask("start", st.Node, "", st.Vmid, {}))

----------------------------------------------------------------------------
(* Inputs *)

Node1 == "pve1"

Node2 == "pve2"

ClusterNode(name, status, maxMem, mem) ==
    [Node |-> name, Status |-> status, MaxMem |-> maxMem, Mem |-> mem]

\* answers of p.proxmoxClient.Nodes: memory use and status differ from one
\* invocation to the next
ClusterListings ==
    {<<ClusterNode(Node1, "online", 8, 2), ClusterNode(Node2, "online", 8, 6)>>,
     <<ClusterNode(Node1, "online", 8, 7), ClusterNode(Node2, "online", 8, 1)>>,
     <<ClusterNode(Node1, "offline", 8, 8), ClusterNode(Node2, "online", 8, 4)>>,
     <<ClusterNode(Node2, "online", 8, 4)>>,
     <<>>}

Pool(name, type, avail) == [Name |-> name, Type |-> type, Avail |-> avail]

\* answers of node.Storages
StorageListings ==
    {<<Pool("local", "dir", 50), Pool("thin", "lvmthin", 100)>>,
     <<Pool("local", "dir", 50)>>}

Listing(storages, fails) == [err |-> fails, storages |-> storages]

\* the machine requests of the model: provider data and identity
MachineRequests ==
    {[data |-> [Node |-> "", StorageSelector |-> SelLvmThin, DiskSize |-> 20,
                AdditionalDisks |-> <<>>],
      req |-> [RequestID |-> "req-1", MachineRequestSetID |-> "set-1"]],
     [data |-> [Node |-> Node1, StorageSelector |-> SelLocal, DiskSize |-> 20,
                AdditionalDisks |-> <<[StorageSelector |-> SelLvmThin, DiskSize |-> 10]>>],
      req |-> [RequestID |-> "req-2", MachineRequestSetID |-> ""]],
     [data |-> [Node |-> "", StorageSelector |-> SelLocal, DiskSize |-> 20,
                AdditionalDisks |-> <<>>],
      req |-> [RequestID |-> "req-3", MachineRequestSetID |-> ""]]}

\* a virtual machine another request of request set set-1 already runs
SiblingVMs ==
    {[node |-> Node1, vmid |-> FirstVmid, tags |-> {machineRequestTagPrefix \o "set-1"},
      status |-> "running"]}

\* images the ISO storages hold before the request starts: one version, on one node
StoredImages == {<<Node1, IsoName("sch-a", "v1.11.0")>>}

----------------------------------------------------------------------------
(* The orchestrator and the cluster *)

\* mutant: syncVM is returned before uploadISO
ProvisionStepsSyncFirst == <<"pickNode", "createSchematic", "syncVM", "uploadISO", "startVM">>

\* ProvisionSteps, lines 67-561: the steps in the order they are returned
ProvisionSteps == <<"pickNode", "createSchematic", "uploadISO", "syncVM", "startVM">>

\* the step the orchestrator runs next, "" when every step returned nil
CurrentStep == IF step \in DOMAIN ProvisionSteps THEN ProvisionSteps[step] ELSE ""

NoInvocation == [step |-> "none", res |-> Continue, calls |-> <<>>]

\* Deprovision is not called
NoDeprovision == [pc |-> "idle", task |-> "", cancelled |-> FALSE,
                  res |-> Continue, calls |-> <<>>, n |-> 0, prev |-> "none"]

\* pickNode is not called
NoPick == [list |-> <<>>, picked |-> NoNodeStatus, done |-> FALSE]

\* no function is called
NoCall == [fn |-> "none", args |-> <<>>, ret |-> <<>>, done |-> FALSE]

\* no machine requests run side by side
NoPeer == <<>>

\* no cluster is fixed: every call is answered as the action chooses
NoCluster == [nodes |-> <<>>, storages |-> <<>>, talosVersion |-> ""]

Init ==
    /\ State = EmptyState
    /\ \E mr \in MachineRequests : data = mr.data /\ req = mr.req
    /\ step = 1
    /\ tasks = <<>>
    /\ isoStore = StoredImages
    /\ vms = SiblingVMs
    /\ last = NoInvocation
    /\ dep = NoDeprovision
    /\ pick = NoPick
    /\ call = NoCall
    /\ peer = NoPeer
    /\ cluster = NoCluster

\* one invocation of a step by the orchestrator: the record is written back,
\* a started task runs on the cluster, and the orchestrator moves on to the
\* next step only when the step returned nil
Invoke(name, out) ==
    /\ dep.pc = "idle"
    /\ out.task.kind # "none" => Cardinality(DOMAIN tasks) < MaxTasks
    /\ State' = out.st
    /\ tasks' = IF out.task.kind = "none" THEN tasks
                ELSE tasks @@ (NewUPID(tasks) :>
                        [kind |-> out.task.kind, node |-> out.task.node,
                         name |-> out.task.name, vmid |-> out.task.vmid,
                         tags |-> out.task.tags, status |-> TaskRunning])
    /\ step' = IF out.res.kind = "ok" THEN step + 1 ELSE step
    /\ last' = [step |-> name, res |-> out.res, calls |-> out.calls]
    /\ UNCHANGED <<data, req, isoStore, vms, dep, pick, call, peer, cluster>>

PickNode ==
    /\ CurrentStep = "pickNode"
    /\ \E nodes \in ClusterListings, fail \in {"none", "unmarshal", "nodes", "node", "vms"} :
          Invoke("pickNode", pickNodeStep(State, data, req, nodes, fail))

CreateSchematic ==
    /\ CurrentStep = "createSchematic"
    /\ \E schematic \in Schematics, fail \in {"none", "schematic"} :
          Invoke("createSchematic", createSchematicStep(State, schematic, fail))

UploadISO ==
    /\ CurrentStep = "uploadISO"
    /\ \E talosVersion \in TalosVersions,
          fail \in {"none", "ping", "unmarshal", "node", "storageISO", "iso", "download"} :
          Invoke("uploadISO", uploadISOStep(State, talosVersion, fail))

SyncVM ==
    /\ CurrentStep = "syncVM"
    /\ \E uuid \in {NewString(State)},
          storages \in StorageListings, storages2 \in StorageListings,
          fail \in {"none", "ping", "unmarshal", "node", "cluster", "nextid", "storageISO",
                    "iso", "storages", "storages2", "create"} :
          Invoke("syncVM",
                 syncVMStep(State, data, req, uuid, Listing(storages, fail = "storages"),
                            Listing(storages2, fail = "storages2"), fail))

StartVM ==
    /\ CurrentStep = "startVM"
    /\ \E fail \in {"none", "ping", "node", "getvm", "cloudinit", "start"} :
          Invoke("startVM", startVMStep(State, fail))

\* a running task of the cluster ends with a status; a download that
\* succeeded leaves the image in the node's ISO storage, a create that
\* succeeded leaves the machine, a delete that succeeded removes it, a start
\* or stop that succeeded changes whether it runs
TaskEnds(h, status) ==
    /\ tasks[h].status = TaskRunning
    /\ tasks' = [tasks EXCEPT ![h].status = status]
    /\ isoStore' = IF status = TaskOK /\ tasks[h].kind = "download"
                   THEN isoStore \cup {<<tasks[h].node, tasks[h].name>>} ELSE isoStore
    /\ vms' = IF status = TaskOK /\ tasks[h].kind = "create"
              THEN vms \cup {[node |-> tasks[h].node, vmid |-> tasks[h].vmid,
                              tags |-> tasks[h].tags, status |-> "stopped"]}
              ELSE IF status = TaskOK /\ tasks[h].kind = "delete"
              THEN {vm \in vms : ~(vm.node = tasks[h].node /\ vm.vmid = tasks[h].vmid)}
              ELSE IF status = TaskOK /\ tasks[h].kind \in {"start", "stop"}
              THEN {IF vm.node = tasks[h].node /\ vm.vmid = tasks[h].vmid
                    THEN [vm EXCEPT !.status = IF tasks[h].kind = "start"
                                               THEN "running" ELSE "stopped"]
                    ELSE vm : vm \in vms}
              ELSE vms
    /\ UNCHANGED <<State, data, req, step, last, dep, pick, call, peer, cluster>>

\* a running task of the cluster ends in one of its final states
TaskFinish == \E h \in DOMAIN tasks, status \in {TaskOK, TaskStopped, TaskOther} : TaskEnds(h, status)

\* the orchestrator restarts and runs the steps again from the first one, on
\* the record it persisted; it holds no result of an earlier invocation
Restart ==
    /\ step > 1
    /\ step' = 1
    /\ last' = NoInvocation
    /\ UNCHANGED <<State, data, req, tasks, isoStore, vms, dep, pick, call, peer, cluster>>

Next ==
    \/ PickNode
    \/ CreateSchematic
    \/ UploadISO
    \/ SyncVM
    \/ StartVM
    \/ TaskFinish
    \/ Restart

Spec == Init /\ [][Next]_vars

----------------------------------------------------------------------------
(* Properties of the step pipeline *)

\* the handles of the tasks a transition starts
NewTasks == DOMAIN tasks' \ DOMAIN tasks

\* the remote operations named op among the calls of an invocation
CallsOf(inv, op) == {i \in DOMAIN inv.calls : inv.calls[i].op = op}

\* no remote call of the invocation failed in transport
NoCallFailed(inv) == \A i \in DOMAIN inv.calls : inv.calls[i].answer # "failed"

\* the transition is an invocation of the named step (an invocation that
\* changes nothing at all is no transition)
Invoked(name) ==
    /\ CurrentStep = name
    /\ last'.step = name
    /\ last' # last \/ State' # State \/ step' # step \/ NewTasks # {}

\* C1: once a create (resp. start) handle is recorded, an invocation of syncVM
\* (resp. startVM) makes the one status refresh of that handle and starts no
\* task; so at most one create task and one start task ever exist
C1_TaskHandlesArePolled ==
    /\ [](Cardinality(TasksOfKind("create")) <= 1 /\ Cardinality(TasksOfKind("start")) <= 1)
    /\ [][(Invoked("syncVM") /\ State.VmCreateTask # "")
            => /\ NewTasks = {}
               /\ Len(last'.calls) = 1
               /\ last'.calls[1].op = "ping" /\ last'.calls[1].arg = State.VmCreateTask
               /\ CallsOf(last', "create") = {}]_vars
    /\ [][(Invoked("startVM") /\ State.VmStartTask # "")
            => /\ NewTasks = {}
               /\ Len(last'.calls) = 1
               /\ last'.calls[1].op = "ping" /\ last'.calls[1].arg = State.VmStartTask
               /\ CallsOf(last', "start") = {}]_vars

\* a start handle recorded by a start request is polled while the one create
\* task and the one start task exist
C1_Witness ==
    /\ last.step = "startVM"
    /\ last.calls = <<Call("ping", State.VmStartTask)>>
    /\ Cardinality(TasksOfKind("create")) = 1
    /\ Cardinality(TasksOfKind("start")) = 1

\* the image name uploadISO computes in the invocation: from the schematic of
\* the record and the Talos version it was given
ComputedIsoName == IsoName(State.Schematic, State'.TalosVersion)

\* C2: uploadISO with a recorded download handle whose task is running or has
\* succeeded makes the status refresh and nothing else: no store lookup, no
\* download, no task, no change of the record; it returns a retry interval
\* for a running task and nil for a successful one
C2_UploadPollKeepsRecord ==
    [][(/\ Invoked("uploadISO")
        /\ State.VolumeUploadTask # ""
        /\ tasks[State.VolumeUploadTask].status \in {TaskRunning, TaskOK})
        => /\ State' = State
           /\ NewTasks = {}
           /\ Len(last'.calls) = 1
           /\ last'.calls[1].op = "ping" /\ last'.calls[1].arg = State.VolumeUploadTask
           /\ last'.calls[1].answer = "failed" => last'.res.kind = "error"
           /\ last'.calls[1].answer = "ok" =>
                IF tasks[State.VolumeUploadTask].status = TaskRunning
                THEN last'.res.kind = "retry" /\ last'.res.after > 0
                ELSE last'.res = Continue]_vars

\* uploadISO returned nil after the one refresh of its recorded handle
C2_Witness ==
    /\ last.step = "uploadISO"
    /\ State.VolumeUploadTask # ""
    /\ last.calls = <<Call("ping", State.VolumeUploadTask)>>
    /\ last.res = Continue

\* C3: uploadISO with a recorded download handle whose refresh shows a failed
\* task: with the status text "stopped" the step goes on to the store lookup
\* and, the image being absent, starts a download whose handle replaces the
\* recorded one; with any other status text it returns that text as an error
\* and starts no download
C3_StoppedDownloadIsRetried ==
    [][(/\ Invoked("uploadISO")
        /\ State.VolumeUploadTask # ""
        /\ tasks[State.VolumeUploadTask].status.IsFailed
        /\ last'.calls[1].answer = "ok")
        => IF tasks[State.VolumeUploadTask].status.Status = "stopped"
           THEN /\ last'.res # Errorf("stopped")
                /\ (NoCallFailed(last') /\ last'.res # Errorf("unmarshal failed")) =>
                     /\ CallsOf(last', "iso") # {}
                     /\ IF <<State.Node, ComputedIsoName>> \in isoStore
                        THEN /\ last'.res = Continue
                             /\ NewTasks = {}
                        ELSE /\ last'.res.kind = "retry"
                             /\ \E h \in NewTasks :
                                   /\ NewTasks = {h}
                                   /\ tasks'[h].kind = "download"
                                   /\ State'.VolumeUploadTask = h
                                   /\ h # State.VolumeUploadTask
           ELSE /\ last'.res = Errorf(tasks[State.VolumeUploadTask].status.Status)
                /\ NewTasks = {}
                /\ Len(last'.calls) = 1
                /\ State' = State]_vars

\* uploadISO polled a recorded handle and went on to start another download
C3_Witness ==
    /\ last.step = "uploadISO"
    /\ Len(last.calls) > 1
    /\ last.calls[1].op = "ping"
    /\ last.res.kind = "retry"
    /\ Cardinality(TasksOfKind("download")) = 2

\* C4: uploadISO without a recorded handle, when the ISO storage of the
\* recorded node holds the computed name and no call fails, returns nil,
\* starts no download and leaves VolumeUploadTask empty
C4_StoredImageIsNotDownloaded ==
    [][(/\ Invoked("uploadISO")
        /\ State.VolumeUploadTask = ""
        /\ CallsOf(last', "iso") # {}
        /\ NoCallFailed(last')
        /\ <<State.Node, ComputedIsoName>> \in isoStore)
        => /\ last'.res = Continue
           /\ CallsOf(last', "download") = {}
           /\ NewTasks = {}
           /\ State'.VolumeUploadTask = ""]_vars

\* uploadISO found the image in the store on its first invocation
C4_Witness ==
    /\ last.step = "uploadISO"
    /\ last.res = Continue
    /\ CallsOf(last, "iso") # {}
    /\ State.VolumeUploadTask = ""
    /\ <<State.Node, State.VolumeId>> \in isoStore

\* C5: uploadISO without a recorded handle, when the computed name is not in
\* the ISO storage of the recorded node and no call fails, makes one download
\* request for that name on that node, records the handle of its task and
\* returns a retry interval of one second
C5_MissingImageIsDownloaded ==
    [][(/\ Invoked("uploadISO")
        /\ State.VolumeUploadTask = ""
        /\ CallsOf(last', "iso") # {}
        /\ NoCallFailed(last')
        /\ <<State.Node, ComputedIsoName>> \notin isoStore)
        => /\ Cardinality(CallsOf(last', "download")) = 1
           /\ \E h \in NewTasks :
                 /\ NewTasks = {h}
                 /\ tasks'[h].kind = "download"
                 /\ tasks'[h].node = State.Node
                 /\ tasks'[h].name = ComputedIsoName
                 /\ State'.VolumeUploadTask = h
           /\ last'.res = [kind |-> "retry", after |-> 1, msg |-> "requeue"]]_vars

\* uploadISO started the first download and recorded its handle
C5_Witness ==
    /\ last.step = "uploadISO"
    /\ last.res.kind = "retry"
    /\ last.calls[1].op = "node"
    /\ State.VolumeUploadTask \in TasksOfKind("download")
    /\ Cardinality(TasksOfKind("download")) = 1

\* the handle a step polls
RecordedHandle(name) == IF name = "syncVM" THEN State.VmCreateTask ELSE State.VmStartTask

\* C6: the poll of a recorded handle by syncVM and startVM is one status
\* refresh; the step returns a retry interval for a running task, nil for a
\* successful one, and for any other status an error whose text is the
\* status text of the task; only nil lets the orchestrator go on
C6_PollResult ==
    [][\A name \in {"syncVM", "startVM"} :
        (Invoked(name) /\ RecordedHandle(name) # "")
        => /\ Len(last'.calls) = 1
           /\ last'.calls[1].op = "ping"
           /\ last'.calls[1].answer = "ok" =>
                LET t == tasks[RecordedHandle(name)].status
                IN  /\ t = TaskRunning => last'.res.kind = "retry" /\ last'.res.after > 0
                    /\ t = TaskOK => last'.res = Continue
                    /\ t = TaskStopped => last'.res = [kind |-> "error", after |-> 0, msg |-> "stopped"]
                    /\ t = TaskOther =>
                          last'.res = [kind |-> "error", after |-> 0, msg |-> "unexpected status"]
           /\ step' = IF last'.res = Continue THEN step + 1 ELSE step]_vars

\* syncVM polled its create handle and returned the status text of the failed task
C6_Witness ==
    /\ last.step = "syncVM"
    /\ State.VmCreateTask # ""
    /\ tasks[State.VmCreateTask].status = TaskOther
    /\ last.res.kind = "error"
    /\ last.res.msg = "unexpected status"

\* the order of the steps the pipeline is to run in
DeclaredOrder == <<"pickNode", "createSchematic", "uploadISO", "syncVM", "startVM">>

\* C7: the steps run in the order pickNode, createSchematic, uploadISO,
\* syncVM, startVM: an invocation follows a nil result of the step before it
\* or a retry or error of the same step; a create task is started only with
\* Node and VolumeId recorded, a start task only with the create task
\* successful
C7_PipelineOrder ==
    /\ [][(last' # last /\ last'.step # "none") =>
            \E k \in DOMAIN DeclaredOrder :
                /\ DeclaredOrder[k] = last'.step
                /\ \/ last.step = DeclaredOrder[k] /\ last.res # Continue
                   \/ k = 1 /\ last = NoInvocation
                   \/ k > 1 /\ last.step = DeclaredOrder[k - 1] /\ last.res = Continue]_vars
    /\ [][\A h \in NewTasks :
            /\ tasks'[h].kind = "create" => State.Node # "" /\ State.VolumeId # ""
            /\ tasks'[h].kind = "start" =>
                  /\ State.VmCreateTask # ""
                  /\ tasks[State.VmCreateTask].status = TaskOK]_vars

\* startVM has started the machine at the end of the pipeline
C7_Witness ==
    /\ last.step = "startVM"
    /\ last.res.kind = "retry"
    /\ State.VmStartTask \in TasksOfKind("start")

\* C8: once Node is recorded no invocation of any step changes it
C8_NodeWriteOnce == [][State.Node # "" => State'.Node = State.Node]_vars

\* C9: Uuid never changes once it is recorded and Vmid never changes once it
\* is not zero
C9_UuidVmidWriteOnce ==
    [][/\ State.Uuid # "" => State'.Uuid = State.Uuid
       /\ State.Vmid # 0 => State'.Vmid = State.Vmid]_vars

\* syncVM failed after it had recorded the uuid, and is invoked again
C9_Witness ==
    /\ last.step = "syncVM"
    /\ last.res.kind = "error"
    /\ State.Uuid # ""
    /\ State.Vmid = 0
    /\ CurrentStep = "syncVM"

\* C10: once TalosVersion and VolumeId are recorded no invocation of any step
\* changes them
C10_ImageFieldsWriteOnce ==
    [][(State.TalosVersion # "" /\ State.VolumeId # "")
        => /\ State'.TalosVersion = State.TalosVersion
           /\ State'.VolumeId = State.VolumeId]_vars

----------------------------------------------------------------------------
(* pickNode as a function of its list *)

\* free-memory ratios of the lists, 1/2 twice under two denominators
Ratios == {[num |-> 0, den |-> 1], [num |-> 1, den |-> 2],
           [num |-> 2, den |-> 4], [num |-> 1, den |-> 1]}

\* numbers of machines of the same request set a node runs
SiblingCounts == {0, 1, 2}

\* the ranking keys of one nodeStatus
NodeStatusKeys ==
    {[MemoryFree |-> r, SameMachineRequestSetVMs |-> c] : r \in Ratios, c \in SiblingCounts}

\* the nodeStatus at place i of a list: nodes are named after their place
NodeStatusAt(i, keys) ==
    [Name |-> "n" \o ToString(i), MemoryFree |-> keys.MemoryFree,
     SameMachineRequestSetVMs |-> keys.SameMachineRequestSetVMs]

\* the list of the nodes with the keys keys[1], keys[2], ...
ShortList(keys) == [i \in DOMAIN keys |-> NodeStatusAt(i, keys[i])]

\* a list one longer than the insertion sort takes.  The places 1, 1 + l/4
\* and 1 + 2*(l/4) have the keys a, b and c (the quicksort draws its pivot
\* from the places l/4, 2*(l/4), 3*(l/4) counted from 0); the other nodes run
\* two sibling machines and have no free memory
LongList(a, b, c) ==
    LET l == maxInsertion + 1
        q == l \div 4
        rest == [MemoryFree |-> [num |-> 0, den |-> 1], SameMachineRequestSetVMs |-> 2]
    IN  [i \in 1..l |-> NodeStatusAt(i, IF i = 1 THEN a
                                        ELSE IF i = 1 + q THEN b
                                        ELSE IF i = 1 + 2 * q THEN c ELSE rest)]

\* a caller holds a list of node statuses, of 1 to MaxNodes nodes with every
\* key at every place or a long one; nothing else is going on
InitPickNode ==
    /\ State = EmptyState
    /\ \E mr \in MachineRequests : data = mr.data /\ req = mr.req /\ req.RequestID = "req-1"
    /\ step = 1
    /\ tasks = <<>>
    /\ isoStore = StoredImages
    /\ vms = SiblingVMs
    /\ last = NoInvocation
    /\ dep = NoDeprovision
    /\ call = NoCall
    /\ peer = NoPeer
    /\ cluster = NoCluster
    /\ \/ \E n \in 1..MaxNodes : \E keys \in [1..n -> NodeStatusKeys] :
              pick = [NoPick EXCEPT !.list = ShortList(keys)]
       \/ \E a \in NodeStatusKeys, b \in NodeStatusKeys, c \in NodeStatusKeys :
              pick = [NoPick EXCEPT !.list = LongList(a, b, c)]

\* pickNode(nodeInfoList), lines 699-710
PickNodeCall ==
    /\ ~pick.done
    /\ \E picked \in pickNodeOutcomes(pick.list) :
          pick' = [pick EXCEPT !.picked = picked, !.done = TRUE]
    /\ UNCHANGED <<State, data, req, step, tasks, isoStore, vms, last, dep, call, peer, cluster>>

NextPickNode == PickNodeCall

SpecPickNode == InitPickNode /\ [][NextPickNode]_vars

\* a has at least the free-memory ratio of b
RatioAtLeast(a, b) == a.MemoryFree.num * b.MemoryFree.den >= b.MemoryFree.num * a.MemoryFree.den

\* the places of the list with the least sibling count
LeastCount ==
    {i \in DOMAIN pick.list : \A j \in DOMAIN pick.list :
        pick.list[i].SameMachineRequestSetVMs <= pick.list[j].SameMachineRequestSetVMs}

\* the places with the least sibling count and, among those, the greatest ratio
BestPlaces == {i \in LeastCount : \A j \in LeastCount : RatioAtLeast(pick.list[i], pick.list[j])}

\* C16: the node pickNode returns is an element of the list and no node of
\* the list runs fewer machines of the same request set, whatever the free
\* memory of the nodes is
C16_LeastSiblingsWin ==
    pick.done =>
        /\ \E i \in DOMAIN pick.list : pick.picked = pick.list[i]
        /\ \A i \in DOMAIN pick.list :
              pick.picked.SameMachineRequestSetVMs <= pick.list[i].SameMachineRequestSetVMs

\* pickNode returned a node although another one, with more sibling machines,
\* has strictly more free memory
C16_Witness ==
    /\ pick.done
    /\ \E i \in DOMAIN pick.list :
          /\ pick.list[i].SameMachineRequestSetVMs > pick.picked.SameMachineRequestSetVMs
          /\ ~RatioAtLeast(pick.picked, pick.list[i])

\* C17: the node pickNode returns has the least sibling count and no node with
\* that count has a greater free-memory ratio
C17_MostFreeAmongTied ==
    pick.done =>
        \E i \in LeastCount :
            /\ pick.picked = pick.list[i]
            /\ \A j \in LeastCount : RatioAtLeast(pick.picked, pick.list[j])

\* two nodes tie on the least sibling count with different ratios, and the
\* one placed later has more free memory
C17_Witness ==
    /\ pick.done
    /\ \E i \in LeastCount, j \in LeastCount :
          i < j /\ ~RatioAtLeast(pick.list[i], pick.list[j]) /\ pick.picked = pick.list[j]

\* C18: when two or more nodes tie on both keys and are the best of the list,
\* pickNode returns the one placed first, in lists of every length
C18_FirstOfTheBest ==
    (pick.done /\ Cardinality(BestPlaces) >= 2) =>
        \E i \in BestPlaces :
            /\ \A j \in BestPlaces : i <= j
            /\ pick.picked.Name = pick.list[i].Name

\* C19: from a list of exactly one node pickNode returns that node
C19_SingleNode ==
    (pick.done /\ Len(pick.list) = 1) => pick.picked = pick.list[1]

\* the one node of the list runs sibling machines and has no free memory
C19_Witness ==
    /\ pick.done
    /\ Len(pick.list) = 1
    /\ pick.picked.SameMachineRequestSetVMs > 0
    /\ pick.picked.MemoryFree.num = 0

----------------------------------------------------------------------------
(* Deprovision *)

\* the vm ids of the model
VmIDs == FirstVmid..(FirstVmid + MaxTasks)

\* the error of node.VirtualMachine for a vm id the node has no machine of
vmAbsentText(node, vmid) ==
    "500 Configuration file 'nodes/" \o node \o "/qemu-server/" \o ToString(vmid)
        \o ".conf' does not exist"

\* mutant: no error text is taken for an absent machine
ContainsNothing(text) == FALSE

\* strings.Contains(err.Error(), "does not exist"), line 575: of the error
\* texts of the model only those of an absent machine hold these words
ContainsDoesNotExist(text) == \E n \in NodeNames, v \in VmIDs : text = vmAbsentText(n, v)

\* getVM, lines 643-650
getVM(node, vmid, fail) ==
    LET c1 == <<Call("node", node)>>
        c2 == c1 \o <<Call("getvm", ToString(vmid))>>
    IN  IF NodeLookupFails(node, fail)
        THEN [err |-> Errorf("node failed"), calls |-> Answered(c1, "failed")]
        ELSE IF fail = "getvm"
        THEN [err |-> Errorf("vm lookup failed"), calls |-> Answered(c2, "failed")]
        ELSE IF ~vmExists(node, vmid)
        THEN [err |-> Errorf(vmAbsentText(node, vmid)), calls |-> Answered(c2, "absent")]
        ELSE [err |-> Continue, calls |-> c2]

\* where Deprovision stands after a stretch of its code, what it returned,
\* the remote calls it made so far and the task it started
DOut(pc, res, calls, task) == [pc |-> pc, res |-> res, calls |-> calls, task |-> task]

\* the test of line 565
deprovisionVmidUnset(st) == st.Vmid = 0

\* mutant: a record without node is not told apart
deprovisionNodeNeverMissing(st) == FALSE

\* the test of line 569
deprovisionNodeMissing(st) == st.Node = ""

\* Deprovision from its entry to the first wait, lines 565-587
deprovisionEnter(st, fail) ==
    LET vm == getVM(st.Node, st.Vmid, fail)
        stop == vm.calls \o <<Call("stop", ToString(st.Vmid))>>
    IN  IF deprovisionVmidUnset(st) THEN DOut("done", Continue, <<>>, NoTask)
        ELSE IF deprovisionNodeMissing(st)
        THEN DOut("done", Errorf("VM is missing the node information"), <<>>, NoTask)
        ELSE IF vm.err # Continue
        THEN IF ContainsDoesNotExist(ErrorText(vm.err))
             THEN DOut("done", Continue, vm.calls, NoTask)
             ELSE DOut("done", vm.err, vm.calls, NoTask)
        ELSE IF fail = "stop"
        THEN DOut("done", Errorf("stop failed"), Answered(stop, "failed"), NoTask)
        ELSE DOut("waitStop", Continue, stop, StartedTask("stop", st.Node, "", st.Vmid, {}))

\* mutant: the loop goes on when the task has failed
waitForTaskToFinishOnSuccessOnly(ping) ==
    IF ping.err THEN [ret |-> TRUE, err |-> Errorf("ping failed")]
    ELSE IF ping.t.IsSuccessful THEN [ret |-> TRUE, err |-> Continue]
    ELSE [ret |-> FALSE, err |-> Continue]

\* mutant: the loop ends on every finished task without an error
waitForTaskToFinishAnyEnd(ping) ==
    IF ping.err THEN [ret |-> TRUE, err |-> Errorf("ping failed")]
    ELSE IF ping.t.IsFailed \/ ping.t.IsSuccessful THEN [ret |-> TRUE, err |-> Continue]
    ELSE [ret |-> FALSE, err |-> Continue]

\* one tick of waitForTaskToFinish, lines 677-688: whether the loop returns,
\* and what
waitForTaskToFinish(ping) ==
    IF ping.err THEN [ret |-> TRUE, err |-> Errorf("ping failed")]
    ELSE IF ping.t.IsFailed THEN [ret |-> TRUE, err |-> Errorf(ping.t.Status)]
    ELSE IF ping.t.IsSuccessful THEN [ret |-> TRUE, err |-> Continue]
    ELSE [ret |-> FALSE, err |-> Continue]

\* mutant: the loop does not look at the context
waitNeverObservesDone(d) == FALSE

\* <-ctx.Done() of line 675 is ready
waitObservesDone(d) == d.cancelled

\* ctx.Err() of a cancelled context, line 676
ctxErr == Errorf("context canceled")

\* the error of t.Ping under a cancelled context, line 678
pingCtxErr == Errorf("Get task status: context canceled")

\* Deprovision from a tick that ends a wait to the next wait or the return,
\* lines 587-600
deprovisionResume(st, d, fail) ==
    LET w == waitForTaskToFinish(Ping(d.task, fail = "ping"))
        polled == d.calls \o pollCalls(d.task, fail)
        delete == polled \o <<Call("delete", ToString(st.Vmid))>>
    IN  IF w.err # Continue THEN DOut("done", w.err, polled, NoTask)
        ELSE IF d.pc = "waitDelete" THEN DOut("done", Continue, polled, NoTask)
        ELSE IF fail = "delete"
        THEN DOut("done", Errorf("delete failed"), Answered(delete, "failed"), NoTask)
        ELSE DOut("waitDelete", Continue, delete,
                  StartedTask("delete", st.Node, "", st.Vmid, {}))

\* the tasks of the cluster once the stop or delete request was taken
WithTask(ts, task) ==
    IF task.kind = "none" THEN ts
    ELSE ts @@ (NewUPID(ts) :>
                    [kind |-> task.kind, node |-> task.node, name |-> task.name,
                     vmid |-> task.vmid, tags |-> task.tags, status |-> TaskRunning])

\* the orchestrator calls Deprovision on the record it holds, for the first
\* time or again after an earlier call returned
DeprovisionCall ==
    /\ dep.pc \in {"idle", "done"}
    /\ dep.n < MaxDeprovisions
    /\ \E fail \in {"none", "node", "getvm", "stop"} :
          LET out == deprovisionEnter(State, fail)
          IN  /\ dep' = [pc |-> out.pc, res |-> out.res, calls |-> out.calls,
                         task |-> IF out.task.kind = "none" THEN "" ELSE NewUPID(tasks),
                         cancelled |-> FALSE, n |-> dep.n + 1,
                         prev |-> IF dep.pc = "idle" THEN "none" ELSE dep.res.kind]
              /\ tasks' = WithTask(tasks, out.task)
    /\ UNCHANGED <<State, data, req, step, isoStore, vms, last, pick, call, peer, cluster>>

\* the ticker of waitForTaskToFinish fires and the task has ended, or the
\* ping fails
DeprovisionTickOn(fail) ==
    /\ dep.pc \in {"waitStop", "waitDelete"}
    /\ ~waitObservesDone(dep)
    /\ LET out == deprovisionResume(State, dep, fail)
       IN  /\ waitForTaskToFinish(Ping(dep.task, fail = "ping")).ret
           /\ dep' = [dep EXCEPT !.pc = out.pc, !.res = out.res, !.calls = out.calls,
                                 !.task = IF out.task.kind = "none" THEN dep.task
                                          ELSE NewUPID(tasks)]
           /\ tasks' = WithTask(tasks, out.task)
    /\ UNCHANGED <<State, data, req, step, isoStore, vms, last, pick, call, peer, cluster>>

DeprovisionTick == \E fail \in {"none", "ping", "delete"} : DeprovisionTickOn(fail)

\* a tick whose ping is answered
DeprovisionTickAnswered == \E fail \in {"none", "delete"} : DeprovisionTickOn(fail)

\* the caller cancels the context while Deprovision waits
ContextCancel ==
    /\ dep.pc \in {"waitStop", "waitDelete"}
    /\ ~dep.cancelled
    /\ dep' = [dep EXCEPT !.cancelled = TRUE]
    /\ UNCHANGED <<State, data, req, step, tasks, isoStore, vms, last, pick, call, peer, cluster>>

\* the select of line 674 under a cancelled context: either the Done case is
\* taken, or the tick, whose ping then fails on the context
DeprovisionCancelled ==
    /\ dep.pc \in {"waitStop", "waitDelete"}
    /\ waitObservesDone(dep)
    /\ \E res \in {ctxErr, pingCtxErr} :
          dep' = [dep EXCEPT !.pc = "done", !.res = res,
                             !.calls = IF res = ctxErr THEN dep.calls
                                       ELSE Answered(dep.calls \o <<Call("ping", dep.task)>>,
                                                     "failed")]
    /\ UNCHANGED <<State, data, req, step, tasks, isoStore, vms, last, pick, call, peer, cluster>>

\* a record that holds a vm id and no node
PartialState == [EmptyState EXCEPT !.Vmid = FirstVmid]

\* one machine request from its start, or a partial record that no step is
\* run on (step 0)
InitDeprovision ==
    /\ \E mr \in MachineRequests : data = mr.data /\ req = mr.req /\ req.RequestID = "req-1"
    /\ \/ State = EmptyState /\ step = 1
       \/ State = PartialState /\ step = 0
    /\ tasks = <<>>
    /\ isoStore = StoredImages
    /\ vms = SiblingVMs
    /\ last = NoInvocation
    /\ dep = NoDeprovision
    /\ pick = NoPick
    /\ call = NoCall
    /\ peer = NoPeer
    /\ cluster = NoCluster

\* the steps run once through, each as often as it asks or fails, until the
\* orchestrator calls Deprovision
NextDeprovision ==
    \/ PickNode
    \/ CreateSchematic
    \/ UploadISO
    \/ SyncVM
    \/ StartVM
    \/ TaskFinish
    \/ DeprovisionCall
    \/ DeprovisionTick
    \/ ContextCancel
    \/ DeprovisionCancelled

SpecDeprovision == InitDeprovision /\ [][NextDeprovision]_vars

\* the operations Deprovision has requested so far in its call, in order
DepOps == [i \in DOMAIN dep.calls |-> dep.calls[i].op]

\* the places of the calls of Deprovision that request op
DepCallsOf(op) == {i \in DOMAIN dep.calls : dep.calls[i].op = op}

\* Deprovision has returned nil
DepSucceeded == dep.pc = "done" /\ dep.res = Continue

\* no remote call of the Deprovision call failed in transport, no task it
\* waited for failed, and its context was not cancelled
DepUndisturbed ==
    /\ \A i \in DOMAIN dep.calls : dep.calls[i].answer # "failed"
    /\ dep.task # "" => ~tasks[dep.task].status.IsFailed
    /\ ~dep.cancelled

\* C11: once Deprovision has returned nil for a record with a vm id, the
\* machine (Node, Vmid) is not on the cluster, neither then nor later
C11_DeprovisionedMachineIsGone ==
    (DepSucceeded /\ State.Vmid # 0) => ~vmExists(State.Node, State.Vmid)

\* C12: for a record without vm id Deprovision returns nil and makes no remote
\* call; when the lookup reports the machine absent it returns nil and
\* requests neither stop nor delete; a call after one that returned nil
\* returns nil again when nothing remote fails
C12_NothingToDeprovision ==
    dep.pc = "done" =>
        /\ State.Vmid = 0 => (dep.res = Continue /\ dep.calls = <<>>)
        /\ (\E i \in DepCallsOf("getvm") : dep.calls[i].answer = "absent")
              => (dep.res = Continue /\ DepCallsOf("stop") = {} /\ DepCallsOf("delete") = {})
        /\ (dep.prev = "ok" /\ DepUndisturbed) => dep.res = Continue

\* a second call, after stop and delete went through, finds the machine gone
C12_Witness ==
    /\ DepSucceeded
    /\ dep.prev = "ok"
    /\ State.Vmid # 0
    /\ \E i \in DepCallsOf("getvm") : dep.calls[i].answer = "absent"
    /\ \E h \in DOMAIN tasks : tasks[h].kind = "delete" /\ tasks[h].status = TaskOK

\* C13: for a record with a vm id and no node Deprovision returns the error
\* of the missing node, not nil, and makes no remote call
C13_MissingNodeIsAnError ==
    (dep.pc = "done" /\ State.Vmid # 0 /\ State.Node = "") =>
        /\ dep.res = Errorf("VM is missing the node information")
        /\ dep.calls = <<>>
        /\ DOMAIN tasks = {}

\* Deprovision returned on the partial record
C13_Witness == dep.pc = "done" /\ State.Vmid # 0 /\ State.Node = "" /\ dep.res.kind = "error"

\* C14: Deprovision requests the delete only from the wait for its stop task
\* and only when that task is successful; a poll that is answered and finds
\* the awaited task failed makes Deprovision return the status text of the
\* task; a call that returns nil after its second wait has looked the machine
\* up, stopped it, polled, deleted it and polled, in this order
C14_StopThenDelete ==
    [][/\ DepCallsOf("delete")' # {} /\ DepCallsOf("delete") = {} =>
            /\ dep.pc = "waitStop"
            /\ tasks[dep.task].kind = "stop"
            /\ tasks[dep.task].status = TaskOK
            /\ dep'.calls[Len(dep'.calls)].answer = "ok" =>
                  /\ dep'.pc = "waitDelete"
                  /\ tasks'[dep'.task].kind = "delete"
       /\ (/\ dep.pc \in {"waitStop", "waitDelete"}
           /\ dep'.pc = "done"
           /\ ~dep.cancelled
           /\ tasks[dep.task].status.IsFailed
           /\ dep'.calls[Len(dep'.calls)].answer = "ok")
            => dep'.res = Errorf(tasks[dep.task].status.Status)
       /\ (dep.pc = "waitDelete" /\ dep'.pc = "done" /\ dep'.res = Continue)
            => /\ DepOps' = <<"node", "getvm", "stop", "ping", "delete", "ping">>
               /\ tasks[dep.task].status = TaskOK
      ]_vars

\* Deprovision returned nil after the delete task ended
C14_Witness ==
    /\ DepSucceeded
    /\ DepCallsOf("delete") # {}
    /\ ~vmExists(State.Node, State.Vmid)

\* C15: under a cancelled context a waiting Deprovision does nothing but
\* return an error of the cancellation: it starts no task and requests
\* neither stop nor delete
C15_CancelledWaitReturns ==
    [][(dep.cancelled /\ dep.pc \in {"waitStop", "waitDelete"} /\ dep' # dep) =>
            /\ dep'.pc = "done"
            /\ dep'.res \in {ctxErr, pingCtxErr}
            /\ tasks' = tasks
            /\ DepCallsOf("stop")' = DepCallsOf("stop")
            /\ DepCallsOf("delete")' = DepCallsOf("delete")
      ]_vars

\* the wait for the stop task was cancelled although the task had ended well
C15_Witness ==
    /\ dep.pc = "done"
    /\ dep.cancelled
    /\ dep.res = ctxErr
    /\ DepCallsOf("delete") = {}
    /\ tasks[dep.task].kind = "stop"
    /\ tasks[dep.task].status = TaskOK

----------------------------------------------------------------------------
(* The configured node *)

\* the listing names the node and reports it online
ListedOnline(nodes, name) ==
    \E i \in DOMAIN nodes : nodes[i].Node = name /\ nodes[i].Status = "online"

\* the errors of the pickNode step that name the node
ErrorsNaming(name) ==
    {Errorf("specified node \"" \o name \o "\" not found in cluster")}
        \cup {Errorf("specified node \"" \o name \o "\" is not online (status: " \o status \o ")") :
              status \in {"online", "offline"}}

\* what the invocation of pickNode that is taking place leaves behind is
\* what the step does on the listing nodes with the failure fail
PickNodeRanOn(nodes, fail) ==
    LET out == pickNodeStep(State, data, req, nodes, fail)
    IN  /\ State' = out.st
        /\ last'.res = out.res
        /\ last'.calls = out.calls

\* the inputs of the pickNode step
PickNodeFailures == {"none", "unmarshal", "nodes", "node", "vms"}

\* C20 as stated: with a node configured, the step returns nil only on a
\* listing that reports the node online, then records the node and makes no
\* call but the listing of the nodes; on every listing without the node
\* online it returns an error naming the node and leaves Node as it was
C20_ConfiguredNodeAsStated ==
    [][(data.Node # "" /\ Invoked("pickNode")) =>
        \A nodes \in ClusterListings, fail \in PickNodeFailures :
          PickNodeRanOn(nodes, fail) =>
              /\ last'.res = Continue =>
                    /\ fail \notin {"unmarshal", "nodes"}
                    /\ ListedOnline(nodes, data.Node)
                    /\ State'.Node = data.Node
                    /\ last'.calls = <<Call("nodes", "")>>
              /\ (fail \notin {"unmarshal", "nodes"} /\ ~ListedOnline(nodes, data.Node)) =>
                    /\ last'.res \in ErrorsNaming(data.Node)
                    /\ State'.Node = State.Node
      ]_vars

\* C20, amended: as stated, except that on an empty listing the error is
\* "no nodes available" and does not name the node
C20_ConfiguredNode ==
    [][(data.Node # "" /\ Invoked("pickNode")) =>
        \A nodes \in ClusterListings, fail \in PickNodeFailures :
          PickNodeRanOn(nodes, fail) =>
              /\ last'.res = Continue =>
                    /\ fail \notin {"unmarshal", "nodes"}
                    /\ ListedOnline(nodes, data.Node)
                    /\ State'.Node = data.Node
                    /\ last'.calls = <<Call("nodes", "")>>
              /\ (fail \notin {"unmarshal", "nodes"} /\ ~ListedOnline(nodes, data.Node)) =>
                    /\ last'.res.kind = "error"
                    /\ State'.Node = State.Node
                    /\ nodes # <<>> => last'.res \in ErrorsNaming(data.Node)
                    /\ nodes = <<>> => last'.res = Errorf("no nodes available")
      ]_vars

\* the step failed because the listing reports the configured node offline
C20_Witness ==
    /\ last.step = "pickNode"
    /\ data.Node # ""
    /\ last.res = Errorf("specified node \"" \o data.Node \o "\" is not online (status: offline)")
    /\ State.Node = ""

\* C21: a pickNode invocation that is answered an empty node listing returns
\* the error "no nodes available" and leaves Node as it was, with and without
\* a configured node
C21_NoNodesAvailable ==
    [][Invoked("pickNode") =>
        \A fail \in PickNodeFailures \ {"unmarshal", "nodes"} :
            PickNodeRanOn(<<>>, fail) =>
                /\ last'.res = Errorf("no nodes available")
                /\ State'.Node = State.Node
                /\ last'.calls = <<Call("nodes", "")>>
                /\ step' = step
      ]_vars

\* the step failed on an empty listing after a node had been recorded
C21_Witness ==
    /\ last.step = "pickNode"
    /\ last.res = Errorf("no nodes available")
    /\ State.Node # ""
    /\ CurrentStep = "pickNode"

----------------------------------------------------------------------------
\* the hugepages option of the VM that syncVM creates, lines 436-455

\* mutant: the configured value goes out as it is
hugepagesStrVerbatim(hugepages) == hugepages

\* the switch of lines 440-449
hugepagesStr(hugepages) ==
    IF hugepages \in {"2MB", "2"} THEN "2"
    ELSE IF hugepages \in {"1GB", "1024"} THEN "1024"
    ELSE IF hugepages = "any" THEN "any"
    ELSE hugepages

\* the options lines 437-455 append to vmOptions
hugepagesOptions(hugepages) ==
    IF hugepages # "" THEN <<[Name |-> "hugepages", Value |-> hugepagesStr(hugepages)]>>
    ELSE <<>>

\* values of data.Hugepages
HugepagesValues ==
    {"", "2MB", "2", "1GB", "1024", "any", "2mb", "1gb", "ANY", "4", "2M", "1G", "1048576"}

----------------------------------------------------------------------------
\* GenerateHostnameConfig(talosVersion, hostname): the hostname document of a
\* machine, in the format its Talos version reads

digits == "0123456789"

IsDigit(c) == \E d \in 1..10 : SubSeq(digits, d, d) = c

DigitValue(c) == (CHOOSE d \in 1..10 : SubSeq(digits, d, d) = c) - 1

\* the number written from the i-th character on, -1 when it is no number
RECURSIVE parseUint(_, _, _)
parseUint(text, i, acc) ==
    IF text = "" THEN -1
    ELSE IF i > Len(text) THEN acc
    ELSE IF ~IsDigit(SubSeq(text, i, i)) THEN -1
    ELSE parseUint(text, i + 1, acc * 10 + DigitValue(SubSeq(text, i, i)))

\* the parts of the text between its dots; part is the one being read
RECURSIVE splitDots(_, _, _)
splitDots(text, i, part) ==
    IF i > Len(text) THEN <<part>>
    ELSE IF SubSeq(text, i, i) = "." THEN <<part>> \o splitDots(text, i + 1, "")
    ELSE splitDots(text, i + 1, part \o SubSeq(text, i, i))

NoVersion == [ok |-> FALSE, major |-> 0, minor |-> 0, patch |-> 0]

\* the version a text names, with or without a leading "v"
ParseVersion(talosVersion) ==
    LET text == IF Len(talosVersion) > 0 /\ SubSeq(talosVersion, 1, 1) = "v"
                THEN SubSeq(talosVersion, 2, Len(talosVersion))
                ELSE talosVersion
        parts == splitDots(text, 1, "")
    IN  IF Len(parts) # 3 \/ \E k \in 1..3 : parseUint(parts[k], 1, 0) = -1
        THEN NoVersion
        ELSE [ok |-> TRUE, major |-> parseUint(parts[1], 1, 0),
              minor |-> parseUint(parts[2], 1, 0), patch |-> parseUint(parts[3], 1, 0)]

\* mutant: the legacy format is for versions below 1.11
isLegacyVersionBelow111(version) ==
    version.ok /\ (version.major < 1 \/ (version.major = 1 /\ version.minor < 11))

\* a version below 1.12.0
isLegacyVersion(version) ==
    version.ok /\ (version.major < 1 \/ (version.major = 1 /\ version.minor < 12))

HostnameConfigDocument(hostname) ==
    "apiVersion: v1alpha1\nkind: HostnameConfig\nhostname: " \o hostname \o "\nauto: off\n"

LegacyDocument(hostname) ==
    "machine:\n  network:\n    hostname: " \o hostname \o "\n"

GenerateHostnameConfig(talosVersion, hostname) ==
    IF isLegacyVersion(ParseVersion(talosVersion))
    THEN LegacyDocument(hostname)
    ELSE HostnameConfigDocument(hostname)

\* the table of TestGenerateHostnameConfig: version, hostname, format
TestGenerateHostnameConfig ==
    {<<"v1.12.0", "worker-01", "hostnameconfig">>,
     <<"v1.12.2", "control-plane-01", "hostnameconfig">>,
     <<"v1.13.0", "node-1", "hostnameconfig">>,
     <<"v1.11.6", "worker-01", "legacy">>,
     <<"v1.11.0", "control-plane-01", "legacy">>,
     <<"v1.10.0", "node-1", "legacy">>,
     <<"1.12.0", "worker-01", "hostnameconfig">>,
     <<"1.11.6", "worker-01", "legacy">>,
     <<"invalid", "worker-01", "hostnameconfig">>,
     <<"", "worker-01", "hostnameconfig">>}

Hostnames == {t[2] : t \in TestGenerateHostnameConfig}

Majors == {0, 1, 2}

Minors == {0, 10, 11, 12, 13}

Patches == {0, 2, 6}

VersionText(prefix, major, minor, patch) ==
    prefix \o ToString(major) \o "." \o ToString(minor) \o "." \o ToString(patch)

\* texts that name no version
Unparsed == {"", "invalid", "v", "1.x.0", "latest"}

TalosVersionTexts ==
    {t[1] : t \in TestGenerateHostnameConfig} \cup Unparsed
        \cup {VersionText(prefix, major, minor, patch) :
                    prefix \in {"", "v"}, major \in Majors, minor \in Minors,
                    patch \in Patches}

----------------------------------------------------------------------------
\* functions of the package, one call each

MaxPools == 3

\* the pools a node may list
Pools ==
    {Pool("local", "dir", 50), Pool("thin", "lvmthin", 100),
     Pool("local-lvm", "lvmthin", 0), Pool("backup", "dir", 5)}

Selectors == {SelLvmThin, SelLocal, SelQuoted, SelPerSpace, SelDivByZero, SelMalformed}

\* the pools of a listing of n places
PoolsListed(n) == [1..n -> Pools]

InitCalls ==
    /\ \E mr \in MachineRequests : data = mr.data /\ req = mr.req /\ req.RequestID = "req-1"
    /\ State = EmptyState
    /\ step = 0
    /\ tasks = <<>>
    /\ isoStore = {}
    /\ vms = {}
    /\ last = NoInvocation
    /\ dep = NoDeprovision
    /\ pick = NoPick
    /\ peer = NoPeer
    /\ cluster = NoCluster
    /\ \/ \E n \in 0..MaxPools : \E storages \in PoolsListed(n) :
          \E fails \in BOOLEAN : \E selector \in Selectors :
               call = [fn |-> "pickStorage",
                       args |-> <<Listing(storages, fails), Node1, selector>>,
                       ret |-> <<>>, done |-> FALSE]
       \/ \E hugepages \in HugepagesValues :
               call = [fn |-> "hugepages", args |-> <<hugepages>>,
                       ret |-> <<>>, done |-> FALSE]
       \/ \E talosVersion \in TalosVersionTexts : \E hostname \in Hostnames :
               call = [fn |-> "GenerateHostnameConfig",
                       args |-> <<talosVersion, hostname>>,
                       ret |-> <<>>, done |-> FALSE]

\* one call of pickStorage on the node pve1
PickStorageCall ==
    /\ call.fn = "pickStorage" /\ ~call.done
    /\ call' = [call EXCEPT !.done = TRUE,
                            !.ret = pickStorage(call.args[1], call.args[2], call.args[3])]
    /\ UNCHANGED <<State, data, req, step, tasks, isoStore, vms, last, dep, pick, peer, cluster>>

\* the hugepages option of one VM creation
HugepagesCall ==
    /\ call.fn = "hugepages" /\ ~call.done
    /\ call' = [call EXCEPT !.done = TRUE, !.ret = hugepagesOptions(call.args[1])]
    /\ UNCHANGED <<State, data, req, step, tasks, isoStore, vms, last, dep, pick, peer, cluster>>

\* one call of GenerateHostnameConfig
GenerateHostnameConfigCall ==
    /\ call.fn = "GenerateHostnameConfig" /\ ~call.done
    /\ call' = [call EXCEPT !.done = TRUE,
                            !.ret = GenerateHostnameConfig(call.args[1], call.args[2])]
    /\ UNCHANGED <<State, data, req, step, tasks, isoStore, vms, last, dep, pick, peer, cluster>>

NextCalls == PickStorageCall \/ HugepagesCall \/ GenerateHostnameConfigCall

SpecCalls == InitCalls /\ [][NextCalls]_vars

\* whether the text has the part somewhere in it
TextContains(text, part) ==
    \E i \in 1..(Len(text) + 1 - Len(part)) : SubSeq(text, i, i + Len(part) - 1) = part

\* a finished call of pickStorage whose listing was answered
PickStorageReturned == call.fn = "pickStorage" /\ call.done /\ ~call.args[1].err

StoragesOfCall == call.args[1].storages

SelectorOfCall == call.args[3]

\* the predicate of the call on the i-th pool listed
PredicateAt(i) == EvalBool(SelectorOfCall, call.args[2], StoragesOfCall[i])

\* the first pool comes out when the predicate is true of some pool and of
\* every pool before it the predicate is false
FirstMatchReturned ==
    \A i \in DOMAIN StoragesOfCall :
        (/\ ParseBooleanExpression(SelectorOfCall)
         /\ PredicateAt(i) = "true"
         /\ \A j \in 1..(i - 1) : PredicateAt(j) = "false")
            => call.ret = [name |-> StoragesOfCall[i].Name, err |-> Continue]

\* no pool satisfies a well-formed predicate
NoPoolMatches ==
    /\ ParseBooleanExpression(SelectorOfCall)
    /\ \A i \in DOMAIN StoragesOfCall : PredicateAt(i) = "false"

C23_MalformedSelectorIsParseError ==
    (PickStorageReturned /\ ~ParseBooleanExpression(SelectorOfCall)) =>
        call.ret = [name |-> "",
                    err |-> Errorf("failed to parse the expression " \o SelectorOfCall)]

\* the evaluation of the predicate fails on the i-th pool and no pool before it matches
EvaluationFailsAt(i) ==
    /\ ParseBooleanExpression(SelectorOfCall)
    /\ PredicateAt(i) = "error"
    /\ \A j \in 1..(i - 1) : PredicateAt(j) = "false"

\* C27: when the evaluation of the predicate fails on a pool, pickStorage
\* returns that error and no pool, also when a later pool satisfies the predicate
C27_EvaluationErrorIsReturned ==
    PickStorageReturned =>
        \A i \in DOMAIN StoragesOfCall :
            EvaluationFailsAt(i) =>
                call.ret = [name |-> "",
                            err |-> Errorf("failed to evaluate the expression "
                                            \o SelectorOfCall)]

C27_Witness ==
    /\ PickStorageReturned
    /\ Len(StoragesOfCall) = 3
    /\ PredicateAt(1) = "false" /\ EvaluationFailsAt(2) /\ PredicateAt(3) = "true"
    /\ call.ret.name = "" /\ call.ret.err.kind = "error"

\* the named values of the hugepages setting and what goes to the remote API
HugepagesTable ==
    {<<"2MB", "2">>, <<"2", "2">>, <<"1GB", "1024">>, <<"1024", "1024">>, <<"any", "any">>}

\* the value of the hugepages option among the options of a call, "" without one
EmittedHugepages ==
    IF \E k \in DOMAIN call.ret : call.ret[k].Name = "hugepages"
    THEN (CHOOSE o \in {call.ret[k] : k \in DOMAIN call.ret} : o.Name = "hugepages").Value
    ELSE ""

\* C25: the hugepages option is "2" for "2MB" and "2", "1024" for "1GB" and
\* "1024", "any" for "any", the configured value for every other non-empty
\* one, and there is no such option for the empty value
C25_HugepagesOption ==
    (call.fn = "hugepages" /\ call.done) =>
        /\ \A t \in HugepagesTable : call.args[1] = t[1] => EmittedHugepages = t[2]
        /\ call.args[1] \notin {t[1] : t \in HugepagesTable} =>
                EmittedHugepages = call.args[1]
        /\ call.args[1] = "" <=> call.ret = <<>>
        /\ Len(call.ret) <= 1

C25_Witness ==
    /\ call.fn = "hugepages" /\ call.done
    /\ call.args[1] = "1GB"
    /\ call.ret = <<[Name |-> "hugepages", Value |-> "1024"]>>

\* the document is in the HostnameConfig format and carries the hostname
IsHostnameConfig(document, hostname) ==
    /\ TextContains(document, "apiVersion: v1alpha1")
    /\ TextContains(document, "kind: HostnameConfig")
    /\ TextContains(document, "hostname: " \o hostname)
    /\ ~TextContains(document, "machine:")

\* the document is in the legacy format and carries the hostname
IsLegacy(document, hostname) ==
    /\ TextContains(document, "machine:")
    /\ TextContains(document, "network:")
    /\ TextContains(document, "hostname: " \o hostname)
    /\ ~TextContains(document, "HostnameConfig")

----------------------------------------------------------------------------
\* C24: a recorded VolumeId is the image name of the Schematic and the
\* TalosVersion of the same state record, whatever the node, the request and
\* the rest of the state are
C24_VolumeIdOfRecordedPair ==
    State.VolumeId # "" => State.VolumeId = IsoName(State.Schematic, State.TalosVersion)

----------------------------------------------------------------------------
\* Two machine requests of one request set provisioned side by side.  Both
\* have the provider data and the request set of data and req; peer holds for
\* each its state record, its place in the pipeline (1 pickNode is due,
\* 2 the node is picked, 3 its machine is created, 4 its machine runs), and
\* what its pickNode step read: the listing of the nodes, the machines of the
\* cluster, and the nodeInfoList built from them.

PeerRequests == {"req-1", "req-4"}

\* machines of the cluster before the two requests: of another request set
\* whose name begins alike, and of no request set
PeerVMs ==
    {[node |-> Node2, vmid |-> FirstVmid, tags |-> {machineRequestTagPrefix \o "set-10"},
      status |-> "running"],
     [node |-> Node1, vmid |-> FirstVmid + 1, tags |-> {}, status |-> "running"]}

NoReading == [nodes |-> <<>>, vms |-> {}, list |-> <<>>]

InitPeers ==
    /\ \E mr \in MachineRequests :
            data = mr.data /\ req = mr.req /\ data.Node = ""
    /\ State = EmptyState
    /\ step = 0
    /\ tasks = <<>>
    /\ isoStore = StoredImages
    /\ vms = PeerVMs
    /\ last = NoInvocation
    /\ dep = NoDeprovision
    /\ pick = NoPick
    /\ call = NoCall
    /\ peer = [r \in PeerRequests |-> [State |-> EmptyState, step |-> 1, read |-> NoReading]]
    /\ cluster = NoCluster

\* the pickNode step of one of the two requests
PeerPickNode(r) ==
    /\ peer[r].step = 1
    /\ \E nodes \in ClusterListings, fail \in {"none", "unmarshal", "nodes", "node", "vms"} :
          LET out == pickNodeStep(peer[r].State, data, req, nodes, fail)
          IN  peer' = [peer EXCEPT ![r] =
                        IF out.res.kind = "ok"
                        THEN [State |-> out.st, step |-> 2,
                              read |-> [nodes |-> nodes, vms |-> vms,
                                        list |-> nodeInfoList(nodes, req)]]
                        ELSE [@ EXCEPT !.State = out.st]]
    /\ UNCHANGED <<State, data, req, step, tasks, isoStore, vms, last, dep, pick, call, cluster>>

\* the machine of one of the two requests is there: its syncVM step asked for
\* it on the recorded node, with the tags option, and the create task ended
PeerMachineCreated(r) ==
    /\ peer[r].step = 2
    /\ vms' = vms \cup {[node |-> peer[r].State.Node, vmid |-> NextID,
                          tags |-> tagsOf(req), status |-> "stopped"]}
    /\ peer' = [peer EXCEPT ![r].step = 3, ![r].State.Vmid = NextID]
    /\ UNCHANGED <<State, data, req, step, tasks, isoStore, last, dep, pick, call, cluster>>

\* the machine of one of the two requests runs: the start task of its startVM
\* step ended
PeerMachineStarted(r) ==
    /\ peer[r].step = 3
    /\ vms' = {IF vm.node = peer[r].State.Node /\ vm.vmid = peer[r].State.Vmid
               THEN [vm EXCEPT !.status = "running"] ELSE vm : vm \in vms}
    /\ peer' = [peer EXCEPT ![r].step = 4]
    /\ UNCHANGED <<State, data, req, step, tasks, isoStore, last, dep, pick, call, cluster>>

NextPeers ==
    \E r \in PeerRequests :
        \/ PeerPickNode(r)
        \/ PeerMachineCreated(r)
        \/ PeerMachineStarted(r)

SpecPeers == InitPeers /\ [][NextPeers]_vars

\* the tag of the request set of the two requests
RequestSetTag == machineRequestTagPrefix \o req.MachineRequestSetID

\* the machines the two requests created
PeerCreated == vms \ PeerVMs

\* the tag the machines created for the request set carry, none without a set
CreatedMachinesAreTagged ==
    \A vm \in PeerCreated :
        vm.tags = IF req.MachineRequestSetID # "" THEN {RequestSetTag} ELSE {}

\* C28 as stated: the sibling count of a host is the number of the running
\* machines on it that carry exactly the tag "machine-request." + set id, the
\* tag syncVM gives the machines of the set; without a set every count is 0
\* and no tag is given
C28_SiblingsAreRunningTaggedMachines ==
    /\ CreatedMachinesAreTagged
    /\ \A r \in PeerRequests : \A k \in DOMAIN peer[r].read.list :
            peer[r].read.list[k].SameMachineRequestSetVMs =
                IF req.MachineRequestSetID = "" THEN 0
                ELSE Cardinality({vm \in peer[r].read.vms :
                                    /\ vm.node = peer[r].read.list[k].Name
                                    /\ vm.status = "running"
                                    /\ \E t \in vm.tags : t = RequestSetTag})

\* C28 amended: the sibling count of a host is the number of the machines on
\* it, running or not, that carry exactly the tag "machine-request." + set id,
\* the tag syncVM gives the machines of the set; without a set every count is
\* 0 and no tag is given
C28_SiblingsAreTaggedMachines ==
    /\ CreatedMachinesAreTagged
    /\ \A r \in PeerRequests : \A k \in DOMAIN peer[r].read.list :
            peer[r].read.list[k].SameMachineRequestSetVMs =
                IF req.MachineRequestSetID = "" THEN 0
                ELSE Cardinality({vm \in peer[r].read.vms :
                                    /\ vm.node = peer[r].read.list[k].Name
                                    /\ \E t \in vm.tags : t = RequestSetTag})

\* a request ranked the nodes while the machine of the other was created and
\* not started, and counted it
C28_Witness ==
    \E r \in PeerRequests : \E k \in DOMAIN peer[r].read.list :
        /\ peer[r].read.list[k].SameMachineRequestSetVMs = 1
        /\ \A vm \in peer[r].read.vms : RequestSetTag \in vm.tags => vm.status = "stopped"

\* both requests have a node recorded, picked on the same listing of the
\* nodes and the same machines
SameReading(r, q) ==
    /\ r # q
    /\ peer[r].step >= 2 /\ peer[q].step >= 2
    /\ peer[r].read.nodes = peer[q].read.nodes
    /\ peer[r].read.vms = peer[q].read.vms

\* C29: two requests of one request set whose pickNode steps read the same
\* cluster, the second before the machine of the first is created, record
\* the same host: a recorded selection reserves nothing
C29_SameReadingSameHost ==
    \A r \in PeerRequests, q \in PeerRequests :
        SameReading(r, q) => peer[r].State.Node = peer[q].State.Node

\* both pickNode steps ran before either machine was created, and both
\* recorded the same host
C29_Witness ==
    /\ req.MachineRequestSetID # ""
    /\ \A r \in PeerRequests : peer[r].step = 2 /\ peer[r].read.vms = vms
    /\ PeerCreated = {}
    /\ \E host \in NodeNames : \A r \in PeerRequests : peer[r].State.Node = host

----------------------------------------------------------------------------
\* The pipeline on a cluster where every remote call succeeds and every task
\* ends with success.  The cluster answers every invocation the same way; the
\* orchestrator invokes the step that is due again and again, and goes on to
\* the next step when a step returned nil.

InitLive ==
    /\ State = EmptyState
    /\ \E mr \in MachineRequests : data = mr.data /\ req = mr.req
    /\ step = 1
    /\ tasks = <<>>
    /\ isoStore = StoredImages
    /\ vms = SiblingVMs
    /\ last = NoInvocation
    /\ dep = NoDeprovision
    /\ pick = NoPick
    /\ call = NoCall
    /\ peer = NoPeer
    /\ \E nodes \in ClusterListings, storages \in StorageListings,
          talosVersion \in TalosVersions :
            cluster = [nodes |-> nodes, storages |-> storages, talosVersion |-> talosVersion]

LivePickNode ==
    /\ CurrentStep = "pickNode"
    /\ Invoke("pickNode", pickNodeStep(State, data, req, cluster.nodes, "none"))
    /\ UNCHANGED cluster

LiveCreateSchematic ==
    /\ CurrentStep = "createSchematic"
    /\ \E schematic \in Schematics :
          Invoke("createSchematic", createSchematicStep(State, schematic, "none"))
    /\ UNCHANGED cluster

LiveUploadISO ==
    /\ CurrentStep = "uploadISO"
    /\ Invoke("uploadISO", uploadISOStep(State, cluster.talosVersion, "none"))
    /\ UNCHANGED cluster

LiveSyncVM ==
    /\ CurrentStep = "syncVM"
    /\ Invoke("syncVM",
              syncVMStep(State, data, req, NewString(State), Listing(cluster.storages, FALSE),
                         Listing(cluster.storages, FALSE), "none"))
    /\ UNCHANGED cluster

LiveStartVM ==
    /\ CurrentStep = "startVM"
    /\ Invoke("startVM", startVMStep(State, "none"))
    /\ UNCHANGED cluster

\* a running task ends with success
LiveTaskFinish == \E h \in DOMAIN tasks : TaskEnds(h, TaskOK)

LiveInvoke ==
    \/ LivePickNode
    \/ LiveCreateSchematic
    \/ LiveUploadISO
    \/ LiveSyncVM
    \/ LiveStartVM

NextLive == LiveInvoke \/ LiveTaskFinish

SpecLive ==
    /\ InitLive
    /\ [][NextLive]_vars
    /\ WF_vars(LiveInvoke)
    /\ WF_vars(LiveTaskFinish)

\* all five steps returned nil and the record is complete
Completed ==
    /\ step = Len(ProvisionSteps) + 1
    /\ State.Node # "" /\ State.Schematic # "" /\ State.VolumeId # "" /\ State.Uuid # ""
    /\ State.Vmid # 0 /\ State.VmCreateTask # "" /\ State.VmStartTask # ""

\* the most remote calls one invocation of a step makes on the cluster
CallsAtMost(name) ==
    IF name = "pickNode" THEN 1 + 2 * Len(cluster.nodes)
    ELSE IF name = "uploadISO" THEN 5
    ELSE IF name = "syncVM" THEN 7 + Len(data.AdditionalDisks)
    ELSE IF name = "startVM" THEN 4
    ELSE 0

\* an invocation makes a bounded number of calls, ends no task and, when the
\* task it polls still runs, returns with the signal to retry
InvocationsDoNotWait ==
    /\ [](Len(last.calls) <= CallsAtMost(last.step))
    /\ [][last' # last => \A h \in DOMAIN tasks : tasks'[h] = tasks[h]]_vars
    /\ [][(last' # last /\ Len(last'.calls) = 1 /\ last'.calls[1].op = "ping"
            /\ tasks[last'.calls[1].arg].status = TaskRunning)
                => last'.res.kind = "retry"]_vars

\* the selector is true of a pool of the cluster and false of every pool
\* listed before it
SelectorPicksAPool(selector) ==
    \E k \in DOMAIN cluster.storages :
        /\ EvalBool(selector, "", cluster.storages[k]) = "true"
        /\ \A j \in 1..(k - 1) : EvalBool(selector, "", cluster.storages[j]) = "false"

\* the request can be served on the cluster: a node is listed, the configured
\* node is listed online, and each storage selector picks a pool of the node
ConfigurationIsValid ==
    /\ Len(cluster.nodes) > 0
    /\ data.Node # "" =>
            \E i \in DOMAIN cluster.nodes :
                /\ cluster.nodes[i].Node = data.Node
                /\ cluster.nodes[i].Status = "online"
                /\ \A j \in 1..(i - 1) : cluster.nodes[j].Node # data.Node
    /\ SelectorPicksAPool(data.StorageSelector)
    /\ \A n \in DOMAIN data.AdditionalDisks :
            SelectorPicksAPool(data.AdditionalDisks[n].StorageSelector)

\* C30 as stated: when every remote call and every task succeeds and the
\* orchestrator keeps invoking, the pipeline completes all five steps with
\* the record filled in, and no invocation waits for a task
C30_PipelineCompletes == <>Completed /\ InvocationsDoNotWait

\* C30 amended: when moreover the request can be served on the cluster, the
\* pipeline completes all five steps with the record filled in; no
\* invocation waits for a task
C30_ValidPipelineCompletes == (ConfigurationIsValid => <>Completed) /\ InvocationsDoNotWait

C30_Witness ==
    /\ Completed /\ ConfigurationIsValid
    /\ Cardinality(DOMAIN tasks) = 3
    /\ \A h \in DOMAIN tasks : tasks[h].status = TaskOK

----------------------------------------------------------------------------
\* Deprovision of a machine that is on the cluster, under a ticker that keeps
\* firing and a select that takes a case that is ready

\* the record of a machine request whose machine is the one the cluster has
ProvisionedState ==
    [EmptyState EXCEPT !.Node = Node1, !.Vmid = FirstVmid, !.Uuid = "uuid-1"]

InitWait ==
    /\ \E mr \in MachineRequests : data = mr.data /\ req = mr.req /\ req.RequestID = "req-1"
    /\ State = ProvisionedState
    /\ step = 0
    /\ tasks = <<>>
    /\ isoStore = StoredImages
    /\ vms = SiblingVMs
    /\ last = NoInvocation
    /\ dep = NoDeprovision
    /\ pick = NoPick
    /\ call = NoCall
    /\ peer = NoPeer
    /\ cluster = NoCluster

NextWait ==
    \/ DeprovisionCall
    \/ DeprovisionTick
    \/ ContextCancel
    \/ DeprovisionCancelled
    \/ TaskFinish

SpecWait ==
    /\ InitWait
    /\ [][NextWait]_vars
    /\ WF_vars(DeprovisionTickAnswered)
    /\ WF_vars(DeprovisionCancelled)

\* Deprovision is in one of its two waits
Waiting == dep.pc \in {"waitStop", "waitDelete"}

\* the task Deprovision waits on has succeeded or failed
WaitedTaskEnded ==
    Waiting /\ (tasks[dep.task].status.IsSuccessful \/ tasks[dep.task].status.IsFailed)

\* C31: when every task Deprovision waits on ends, succeeded or failed, or the
\* context is cancelled, Deprovision returns; a poll that sees the task ended
\* leaves the wait, and after a cancellation the next thing the wait does is
\* to return an error of the context
C31_DeprovisionReturns ==
    /\ ([]<>(~Waiting \/ WaitedTaskEnded \/ dep.cancelled)) => [](Waiting => <>(dep.pc = "done"))
    /\ []((Waiting /\ dep.cancelled) => <>(dep.pc = "done"))
    /\ [][(WaitedTaskEnded /\ ~dep.cancelled /\ dep'.calls # dep.calls)
            => (dep'.pc = "done" \/ dep'.task # dep.task)]_vars
    /\ [][(Waiting /\ dep.cancelled /\ dep' # dep)
            => (dep'.pc = "done" /\ dep'.res \in {ctxErr, pingCtxErr})]_vars

\* Deprovision returned the status of a task that failed while it waited
\* Deprovision returns from every wait, whatever the tasks do
ReturnsFromEveryWait == [](Waiting => <>(dep.pc = "done"))

C31_Witness ==
    /\ dep.pc = "done" /\ ~dep.cancelled
    /\ dep.task # "" /\ tasks[dep.task].status = TaskOther
    /\ dep.res = Errorf(TaskOther.Status)

----------------------------------------------------------------------------
\* what the invocation of syncVM that is taking place leaves behind is what
\* the step does on the two storage listings with the failure fail
SyncVMRanOn(storages, storages2, fail) ==
    LET out == syncVMStep(State, data, req, NewString(State),
                          Listing(storages, fail = "storages"),
                          Listing(storages2, fail = "storages2"), fail)
    IN  /\ State' = out.st
        /\ last'.res = out.res
        /\ last'.calls = out.calls

\* the inputs of the syncVM step
SyncVMFailures ==
    {"none", "unmarshal", "node", "cluster", "nextid", "storageISO", "iso",
     "storages", "storages2", "create"}

\* the failures the invocation that is taking place shows: none when every
\* call was answered, the call that failed otherwise, and the unmarshalling
\* when no call was made
SyncVMFailuresSeen ==
    LET n == Len(last'.calls)
    IN  IF n = 0 THEN {"unmarshal"}
        ELSE IF last'.calls[n].answer # "failed" THEN {"none"}
        ELSE IF last'.calls[n].op = "storages" THEN {"storages", "storages2"}
        ELSE {last'.calls[n].op} \cap SyncVMFailures

\* the storage listings an invocation tells apart: the second one is read for
\* the additional disks only
SyncVMListings ==
    {<<storages, storages2>> : storages \in StorageListings,
        storages2 \in IF data.AdditionalDisks = <<>>
                      THEN {CHOOSE st \in StorageListings : TRUE}
                      ELSE StorageListings}

\* the image of the record is in the ISO storage of the node of the record
\* and the lookup finds it
ImageIsFound(fail) ==
    fail \notin {"storageISO", "iso"} /\ <<State.Node, State.VolumeId>> \in isoStore

\* the listing is answered and the selector is true of one of its pools, and
\* false of every pool before it
PoolIsFound(storages, selector, fails) ==
    /\ ~fails
    /\ ParseBooleanExpression(selector)
    /\ \E k \in DOMAIN storages :
            /\ EvalBool(selector, State.Node, storages[k]) = "true"
            /\ \A j \in 1..(k - 1) : EvalBool(selector, State.Node, storages[j]) = "false"

\* the image and a pool for the primary disk and for every additional disk
\* are found
LookupsSucceed(storages, storages2, fail) ==
    /\ ImageIsFound(fail)
    /\ PoolIsFound(storages, data.StorageSelector, fail = "storages")
    /\ \A n \in DOMAIN data.AdditionalDisks :
            PoolIsFound(storages2, data.AdditionalDisks[n].StorageSelector,
                        fail = "storages2")

\* C32: an invocation of syncVM without a recorded create handle requests the
\* creation only when the image is found in the ISO storage of State.Node and
\* a pool is found for the primary and for every additional disk; when one of
\* these lookups fails it returns an error, requests no creation and leaves
\* VmCreateTask empty and Vmid zero
C32_CreateOnlyAfterLookups ==
    [][(Invoked("syncVM") /\ State.VmCreateTask = "") =>
        LET ran == {in \in SyncVMListings \X SyncVMFailuresSeen :
                        SyncVMRanOn(in[1][1], in[1][2], in[2])}
        IN  /\ ran # {}
            /\ \A in \in ran :
                    /\ (CallsOf(last', "create") # {} \/ NewTasks # {})
                            => LookupsSucceed(in[1][1], in[1][2], in[2])
                    /\ (in[2] \notin {"unmarshal", "node", "cluster", "nextid"}
                        /\ ~LookupsSucceed(in[1][1], in[1][2], in[2]))
                            => /\ last'.res.kind = "error"
                               /\ CallsOf(last', "create") = {}
                               /\ NewTasks = {}
                               /\ State'.VmCreateTask = "" /\ State'.Vmid = 0]_vars

\* syncVM found the image and no pool for the selector, and asked for no machine
C32_Witness ==
    /\ last.step = "syncVM" /\ last.res.kind = "error"
    /\ CallsOf(last, "iso") # {} /\ CallsOf(last, "storages") # {}
    /\ \A i \in DOMAIN last.calls : last.calls[i].answer = "ok"
    /\ <<State.Node, State.VolumeId>> \in isoStore
    /\ State.VmCreateTask = "" /\ State.Vmid = 0
    /\ TasksOfKind("create") = {}

----------------------------------------------------------------------------
\* Two machine requests whose syncVM steps and Deprovision run side by side on
\* one cluster: each holds a record of its own, the tasks and the machines are
\* the cluster's

\* the record of a machine request whose image is in the storage of its node
ImageReadyState ==
    [EmptyState EXCEPT !.Node = Node1, !.Schematic = "sch-a", !.TalosVersion = "v1.11.0",
                       !.VolumeId = IsoName("sch-a", "v1.11.0")]

\* uuid.NewString() of line 240 in the invocations of the two requests: no
\* two calls return the same value
NewStringOf(r) == IF r = "req-1" THEN "uuid-1" ELSE "uuid-2"

InitRace ==
    /\ \E mr \in MachineRequests : data = mr.data /\ req = mr.req /\ req.RequestID = "req-1"
    /\ State = EmptyState
    /\ step = 0
    /\ tasks = <<>>
    /\ isoStore = StoredImages
    /\ vms = {}
    /\ last = NoInvocation
    /\ dep = NoDeprovision
    /\ pick = NoPick
    /\ call = NoCall
    /\ peer = [r \in PeerRequests |-> [State |-> ImageReadyState, step |-> 4, read |-> NoReading]]
    /\ cluster = NoCluster

\* the syncVM step of one of the two requests, on the record of that request
RaceSyncVM(r) ==
    /\ peer[r].step = 4
    /\ \E storages \in StorageListings, fail \in {"none", "ping", "nextid", "create"} :
          LET out == syncVMStep(peer[r].State, data, req, NewStringOf(r),
                                Listing(storages, FALSE), Listing(storages, FALSE), fail)
          IN  /\ peer' = [peer EXCEPT ![r].State = out.st]
              /\ tasks' = WithTask(tasks, out.task)
    /\ UNCHANGED <<State, data, req, step, isoStore, vms, last, dep, pick, call, cluster>>

\* the orchestrator calls Deprovision on the record of one of the two
\* requests; the steps of that request run no more
RaceDeprovisionCall(r) ==
    /\ dep.pc = "idle"
    /\ peer[r].step = 4
    /\ \E fail \in {"none", "node", "getvm", "stop"} :
          LET out == deprovisionEnter(peer[r].State, fail)
          IN  /\ dep' = [pc |-> out.pc, res |-> out.res, calls |-> out.calls,
                         task |-> IF out.task.kind = "none" THEN "" ELSE NewUPID(tasks),
                         cancelled |-> FALSE, n |-> dep.n + 1, prev |-> "none"]
              /\ tasks' = WithTask(tasks, out.task)
    /\ peer' = [peer EXCEPT ![r].step = 0]
    /\ UNCHANGED <<State, data, req, step, isoStore, vms, last, pick, call, cluster>>

\* a tick of waitForTaskToFinish in the Deprovision of one of the two requests
RaceDeprovisionTick(r) ==
    /\ peer[r].step = 0
    /\ dep.pc \in {"waitStop", "waitDelete"}
    /\ \E fail \in {"none", "ping", "delete"} :
          LET out == deprovisionResume(peer[r].State, dep, fail)
          IN  /\ waitForTaskToFinish(Ping(dep.task, fail = "ping")).ret
              /\ dep' = [dep EXCEPT !.pc = out.pc, !.res = out.res, !.calls = out.calls,
                                    !.task = IF out.task.kind = "none" THEN dep.task
                                             ELSE NewUPID(tasks)]
              /\ tasks' = WithTask(tasks, out.task)
    /\ UNCHANGED <<State, data, req, step, isoStore, vms, last, pick, call, peer, cluster>>

\* a task of the cluster ends; the cluster has one machine per id, so a
\* create task for an id that a machine holds by then does not succeed
RaceTaskFinish ==
    \E h \in DOMAIN tasks, status \in {TaskOK, TaskStopped, TaskOther} :
        /\ (status = TaskOK /\ tasks[h].kind = "create")
                => \A vm \in vms : vm.vmid # tasks[h].vmid
        /\ TaskEnds(h, status)

NextRace ==
    \/ \E r \in PeerRequests : RaceSyncVM(r)
    \/ \E r \in PeerRequests : RaceDeprovisionCall(r)
    \/ \E r \in PeerRequests : RaceDeprovisionTick(r)
    \/ RaceTaskFinish

SpecRace == InitRace /\ [][NextRace]_vars

\* the machine with this id on this node is there and was created for the
\* request: the create task of the request, for that node and id, succeeded
CreatedFor(q, node, vmid) ==
    /\ peer[q].State.VmCreateTask # ""
    /\ tasks[peer[q].State.VmCreateTask].status = TaskOK
    /\ peer[q].State.Node = node /\ peer[q].State.Vmid = vmid
    /\ vmExists(node, vmid)

\* Deprovision sends a stop or a delete request in this step
StopOrDeleteRequested ==
    \E i \in DOMAIN dep'.calls :
        /\ i \notin DOMAIN dep.calls \/ dep.pc = "idle"
        /\ dep'.calls[i].op \in {"stop", "delete"}

\* C33: Deprovision of one machine request sends no stop and no delete
\* request for a machine that was created for another machine request, also
\* when both requests took their vm id from cluster.NextID before either
\* machine was there
C33_DeprovisionSparesOthers ==
    [][\A r \in DOMAIN peer :
          (peer'[r].step = 0 /\ StopOrDeleteRequested)
              => \A q \in DOMAIN peer \ {r} :
                    ~CreatedFor(q, peer[r].State.Node, peer[r].State.Vmid)]_vars

\* the machine of one request is gone by the Deprovision of the other
C33_Reached ==
    \E r \in DOMAIN peer, q \in DOMAIN peer :
        /\ r # q /\ peer[r].step = 0 /\ dep.pc = "done" /\ dep.res = Continue
        /\ DepCallsOf("delete") # {}
        /\ peer[q].State.VmCreateTask # ""
        /\ tasks[peer[q].State.VmCreateTask].status = TaskOK
        /\ tasks[peer[r].State.VmCreateTask].status = TaskOther
        /\ ~vmExists(peer[q].State.Node, peer[q].State.Vmid)

----------------------------------------------------------------------------
\* the task-handle fields of the record and the remote request each of them
\* comes from
HandleRequests ==
    [VolumeUploadTask |-> "download", VmCreateTask |-> "create", VmStartTask |-> "start"]

\* a step of the pipeline is invoked in this transition
StepInvoked == \E i \in DOMAIN ProvisionSteps : Invoked(ProvisionSteps[i])

\* the last remote call of the invocation is the request, and it was answered
RequestReturnedHandle(request) ==
    /\ last'.calls # <<>>
    /\ last'.calls[Len(last'.calls)].op = request
    /\ last'.calls[Len(last'.calls)].answer = "ok"

\* C34: a task-handle field changes only in a step invocation whose download,
\* create or start request returned a handle, the field then holds that
\* handle and the invocation returns a retry-after signal; an invocation that
\* returns an error leaves the three task-handle fields and Vmid as they were
C34_HandlesFollowRequests ==
    [][/\ \A f \in DOMAIN HandleRequests :
              State'[f] # State[f] =>
                  /\ StepInvoked
                  /\ RequestReturnedHandle(HandleRequests[f])
                  /\ State'[f] \in NewTasks
                  /\ tasks'[State'[f]].kind = HandleRequests[f]
                  /\ last'.res.kind = "retry"
       /\ State'.Vmid # State.Vmid =>
              StepInvoked /\ RequestReturnedHandle("create") /\ last'.res.kind = "retry"
       /\ (StepInvoked /\ last'.res.kind = "error") =>
              /\ \A f \in DOMAIN HandleRequests : State'[f] = State[f]
              /\ State'.Vmid = State.Vmid]_vars

\* startVM returned the error of a refused start request on a record that
\* holds the create handle and the vm id, and recorded no start handle
C34_Witness ==
    /\ last.step = "startVM" /\ last.res.kind = "error"
    /\ CallsOf(last, "start") # {}
    /\ last.calls[Len(last.calls)].answer = "failed"
    /\ State.VmCreateTask # "" /\ State.Vmid # 0
    /\ State.VmStartTask = ""

====
